---- MODULE Spec2Model ----
(***************************************************************************)
(* Verification model of the game room application: Taiwanese 16-tile     *)
(* Mahjong rule engine and its turn / claim state machine.                 *)
(*                                                                         *)
(* Tiles are the integers 0..135, the `index` that initializeMahjongDeck   *)
(* gives them: four copies of each of the 34 faces, in the order wan 1-9,  *)
(* tong 1-9, tiao 1-9, wind 1-4, dragon 1-3.  A tile's id string           *)
(* `${suit}-${value}-${copy}` is in one-to-one correspondence with index.  *)
(***************************************************************************)
EXTENDS Integers, Sequences, FiniteSets, TLC

\* ------------------------------------------------------------------------
\* Tile catalogue
\* ------------------------------------------------------------------------

DeckSize == 136
Tiles == 0 .. (DeckSize - 1)
NoTile == -1

\* suit and value of every tile of initializeMahjongDeck, by index
SuitTable ==
    [t \in Tiles |->
        IF t < 36 THEN "wan"
        ELSE IF t < 72 THEN "tong"
        ELSE IF t < 108 THEN "tiao"
        ELSE IF t < 124 THEN "wind"
        ELSE "dragon"]

ValueTable ==
    [t \in Tiles |->
        IF t < 108 THEN ((t \div 4) % 9) + 1
        ELSE IF t < 124 THEN ((t - 108) \div 4) + 1
        ELSE ((t - 124) \div 4) + 1]

suitOf(t) == SuitTable[t]
valueOf(t) == ValueTable[t]

\* the tile (suit, value, copy) of the deck
TileOf(suit, value, copy) ==
    CHOOSE t \in Tiles : suitOf(t) = suit /\ valueOf(t) = value /\ t % 4 = copy

initializeMahjongDeck == [i \in 1 .. DeckSize |-> i - 1]

SameFace(a, b) == SuitTable[a] = SuitTable[b] /\ ValueTable[a] = ValueTable[b]

NumberSuits == {"wan", "tong", "tiao"}

suitOrder(s) ==
    CASE s = "wan" -> 0
      [] s = "tong" -> 1
      [] s = "tiao" -> 2
      [] s = "wind" -> 3
      [] s = "dragon" -> 4
      [] OTHER -> 99

SuitOrderTable == [t \in Tiles |-> suitOrder(SuitTable[t])]

\* comparator of sortHand: negative, zero or positive
compareTiles(a, b) ==
    IF SuitOrderTable[a] # SuitOrderTable[b]
    THEN SuitOrderTable[a] - SuitOrderTable[b]
    ELSE ValueTable[a] - ValueTable[b]

\* ------------------------------------------------------------------------
\* Sequence helpers (Array.prototype methods used by the code)
\* ------------------------------------------------------------------------

\* findIndex, 1-based; 0 when nothing matches
FindIndex(seq, Test(_)) ==
    LET hits == {i \in 1 .. Len(seq) : Test(seq[i])}
    IN  IF hits = {} THEN 0 ELSE CHOOSE i \in hits : \A j \in hits : i <= j

\* splice(i, 1)
RemoveAt(seq, i) == [j \in 1 .. (Len(seq) - 1) |-> IF j < i THEN seq[j] ELSE seq[j + 1]]

\* filter
Filter(seq, Test(_)) == SelectSeq(seq, Test)

CountFace(hand, tile) == Len(SelectSeq(hand, LAMBDA t : SameFace(t, tile)))

\* stable insertion of x after every element that does not compare greater
InsertSorted(sorted, x) ==
    IF Len(sorted) = 0 \/ compareTiles(sorted[Len(sorted)], x) <= 0
    THEN Append(sorted, x)
    ELSE LET k == Len(SelectSeq(sorted, LAMBDA y : compareTiles(y, x) <= 0))
         IN  [j \in 1 .. (Len(sorted) + 1) |->
                 IF j <= k THEN sorted[j] ELSE IF j = k + 1 THEN x ELSE sorted[j - 1]]

RECURSIVE SortFrom(_, _, _)
SortFrom(acc, seq, i) ==
    IF i > Len(seq) THEN acc ELSE SortFrom(InsertSorted(acc, seq[i]), seq, i + 1)

\* [...hand].sort(by suit order, then value); Array.prototype.sort is stable
sortHand(hand) == SortFrom(<<>>, hand, 1)

\* ------------------------------------------------------------------------
\* Meld eligibility
\* ------------------------------------------------------------------------

canPong(hand, tile) ==
    /\ Len(hand) >= 2
    /\ CountFace(hand, tile) >= 2

canKong(hand, tile) ==
    /\ Len(hand) >= 3
    /\ CountFace(hand, tile) = 3

HasValue(hand, suit, val) == \E i \in 1 .. Len(hand) : suitOf(hand[i]) = suit /\ valueOf(hand[i]) = val

canChi(hand, tile) ==
    /\ Len(hand) >= 2
    /\ suitOf(tile) \notin {"wind", "dragon"}
    /\ LET s == suitOf(tile)
           v == valueOf(tile)
       IN  \/ HasValue(hand, s, v + 1) /\ HasValue(hand, s, v + 2)
           \/ HasValue(hand, s, v - 1) /\ HasValue(hand, s, v + 1)
           \/ HasValue(hand, s, v - 2) /\ HasValue(hand, s, v - 1)

\* first tile of the hand with the given suit and value (has(val)[0])
FirstOf(hand, suit, val) ==
    hand[FindIndex(hand, LAMBDA t : suitOf(t) = suit /\ valueOf(t) = val)]

\* the chi options in the order the code pushes them: [v+1,v+2], [v-1,v+1], [v-2,v-1]
findChiTiles(hand, tile) ==
    IF ~canChi(hand, tile) THEN <<>>
    ELSE LET s == suitOf(tile)
             v == valueOf(tile)
             opt(a, b) == IF HasValue(hand, s, a) /\ HasValue(hand, s, b)
                          THEN << <<FirstOf(hand, s, a), FirstOf(hand, s, b)>> >>
                          ELSE <<>>
         IN  opt(v + 1, v + 2) \o opt(v - 1, v + 1) \o opt(v - 2, v - 1)

\* ------------------------------------------------------------------------
\* Winning-hand test
\* ------------------------------------------------------------------------

\* remove the first three tiles of first's face (the filter with the counter)
RemoveFirstThree(tiles, first) ==
    LET idx == {i \in 1 .. Len(tiles) : SameFace(tiles[i], first)}
        keep == {i \in idx : Cardinality({j \in idx : j < i}) >= 3}
    IN  SelectSeq([i \in 1 .. Len(tiles) |-> IF i \in idx /\ i \notin keep THEN NoTile ELSE tiles[i]],
                  LAMBDA t : t # NoTile)

\* remove the tiles at three distinct positions (splice from the largest index down)
RemoveThreeAt(tiles, a, b, c) ==
    SelectSeq([i \in 1 .. Len(tiles) |-> IF i \in {a, b, c} THEN NoTile ELSE tiles[i]],
              LAMBDA t : t # NoTile)

RECURSIVE canFormSets(_)
canFormSets(tiles) ==
    IF Len(tiles) = 0 THEN TRUE
    ELSE LET first == tiles[1]
             v == valueOf(first)
             secondIdx == FindIndex(tiles, LAMBDA t : suitOf(t) = suitOf(first) /\ valueOf(t) = v + 1)
             thirdIdx == FindIndex(tiles, LAMBDA t : suitOf(t) = suitOf(first) /\ valueOf(t) = v + 2)
         IN  \/ /\ canPong(tiles, first)
                /\ CountFace(tiles, first) >= 3
                /\ canFormSets(RemoveFirstThree(tiles, first))
             \/ /\ suitOf(first) \in NumberSuits
                /\ secondIdx # 0
                /\ thirdIdx # 0
                /\ canFormSets(RemoveThreeAt(tiles, 1, secondIdx, thirdIdx))

\* the pair keys in insertion order: one <<suit, value>> per face that has two
\* neighbouring equal tiles in the sorted hand (the Set drops the repeats, which
\* in a sorted hand are the positions whose left neighbour has the same face)
uniquePairs(sortedHand) ==
    LET isNew(i) == /\ i < Len(sortedHand)
                    /\ SameFace(sortedHand[i], sortedHand[i + 1])
                    /\ (i = 1 \/ ~SameFace(sortedHand[i - 1], sortedHand[i]))
        marks == SelectSeq([i \in 1 .. Len(sortedHand) |-> IF isNew(i) THEN sortedHand[i] ELSE NoTile],
                           LAMBDA t : t # NoTile)
    IN  [k \in 1 .. Len(marks) |-> <<suitOf(marks[k]), valueOf(marks[k])>>]

\* the hand without the first two tiles of the pair's face
RemovePair(sortedHand, pairKey) ==
    LET isPair(t) == suitOf(t) = pairKey[1] /\ valueOf(t) = pairKey[2]
        p1 == FindIndex(sortedHand, isPair)
        rest == RemoveAt(sortedHand, p1)
        p2 == FindIndex(rest, isPair)
    IN  RemoveAt(rest, p2)

\* checkHu that stops at the first pair candidate
checkHuFirstPairOnly(hand) ==
    IF Len(hand) < 2 THEN FALSE
    ELSE IF Len(hand) % 3 # 2 THEN FALSE
    ELSE LET sortedHand == sortHand(hand)
             pairs == uniquePairs(sortedHand)
         IN  Len(pairs) > 0 /\ canFormSets(RemovePair(sortedHand, pairs[1]))

checkHu(hand) ==
    IF Len(hand) < 2 THEN FALSE
    ELSE IF Len(hand) % 3 # 2 THEN FALSE
    ELSE LET sortedHand == sortHand(hand)
             pairs == uniquePairs(sortedHand)
         IN  \E k \in 1 .. Len(pairs) : canFormSets(RemovePair(sortedHand, pairs[k]))

\* ------------------------------------------------------------------------
\* Scoring (calculateScore and its hand decomposition)
\* ------------------------------------------------------------------------

isNumberSuit(suit) == suit = "wan" \/ suit = "tong" \/ suit = "tiao"

isHonor(suit) == suit = "wind" \/ suit = "dragon"

\* a.suit.localeCompare(b.suit), then a.value - b.value, as a single key
scoreKey(t) ==
    (CASE suitOf(t) = "dragon" -> 0
       [] suitOf(t) = "tiao" -> 1
       [] suitOf(t) = "tong" -> 2
       [] suitOf(t) = "wan" -> 3
       [] suitOf(t) = "wind" -> 4
       [] OTHER -> 9) * 10 + valueOf(t)

\* the sorted tiles with one more tile, put behind the tiles that do not sort
\* after it
RECURSIVE scoreInsert(_, _)
scoreInsert(sorted, t) ==
    LET n == Len(sorted)
    IN  IF n = 0 THEN <<t>>
        ELSE IF scoreKey(sorted[n]) <= scoreKey(t) THEN Append(sorted, t)
        ELSE Append(scoreInsert(SubSeq(sorted, 1, n - 1), t), sorted[n])

\* [...tiles].sort(by suit name, then value), stable
RECURSIVE scoreSort(_)
scoreSort(tiles) ==
    LET n == Len(tiles)
    IN  IF n = 0 THEN <<>>
        ELSE scoreInsert(scoreSort(SubSeq(tiles, 1, n - 1)), tiles[n])

NoSets == [ok |-> FALSE, sets |-> <<>>]

\* trySets with the run that starts at the first sorted tile tried before its
\* triplet
RECURSIVE trySetsRunFirst(_)
trySetsRunFirst(tiles) ==
    IF Len(tiles) = 0 THEN [ok |-> TRUE, sets |-> <<>>]
    ELSE LET sorted == scoreSort(tiles)
             first == sorted[1]
             sameCount == CountFace(sorted, first)
             viaPong == IF sameCount >= 3 THEN trySetsRunFirst(RemoveFirstThree(sorted, first)) ELSE NoSets
             v == valueOf(first)
             secondIdx == FindIndex(sorted, LAMBDA t : suitOf(t) = suitOf(first) /\ valueOf(t) = v + 1)
             thirdIdx == FindIndex(sorted, LAMBDA t : suitOf(t) = suitOf(first) /\ valueOf(t) = v + 2)
             viaChow == IF isNumberSuit(suitOf(first)) /\ secondIdx # 0 /\ thirdIdx # 0
                        THEN trySetsRunFirst(RemoveThreeAt(sorted, 1, secondIdx, thirdIdx))
                        ELSE NoSets
         IN  IF viaChow.ok
             THEN [ok |-> TRUE,
                   sets |-> << [type |-> "chow", suit |-> suitOf(first), value |-> v] >> \o viaChow.sets]
             ELSE IF viaPong.ok
             THEN [ok |-> TRUE,
                   sets |-> << [type |-> "pong", suit |-> suitOf(first), value |-> v] >> \o viaPong.sets]
             ELSE NoSets

\* trySets: the sets pushed when the tiles split into triplets and runs, the
\* triplet of the first sorted tile tried before the run that starts at it
RECURSIVE trySets(_)
trySets(tiles) ==
    IF Len(tiles) = 0 THEN [ok |-> TRUE, sets |-> <<>>]
    ELSE LET sorted == scoreSort(tiles)
             first == sorted[1]
             sameCount == CountFace(sorted, first)
             viaPong == IF sameCount >= 3 THEN trySets(RemoveFirstThree(sorted, first)) ELSE NoSets
             v == valueOf(first)
             secondIdx == FindIndex(sorted, LAMBDA t : suitOf(t) = suitOf(first) /\ valueOf(t) = v + 1)
             thirdIdx == FindIndex(sorted, LAMBDA t : suitOf(t) = suitOf(first) /\ valueOf(t) = v + 2)
             viaChow == IF isNumberSuit(suitOf(first)) /\ secondIdx # 0 /\ thirdIdx # 0
                        THEN trySets(RemoveThreeAt(sorted, 1, secondIdx, thirdIdx))
                        ELSE NoSets
         IN  IF viaPong.ok
             THEN [ok |-> TRUE,
                   sets |-> << [type |-> "pong", suit |-> suitOf(first), value |-> v] >> \o viaPong.sets]
             ELSE IF viaChow.ok
             THEN [ok |-> TRUE,
                   sets |-> << [type |-> "chow", suit |-> suitOf(first), value |-> v] >> \o viaChow.sets]
             ELSE NoSets

\* decomposeHand: one decomposition for each pair face whose rest passes
\* trySets, in the order in which the faces first occur in the tiles
decomposeHand(tiles) ==
    LET n == Len(tiles)
        isPairStart(i) == /\ \A j \in 1 .. (i - 1) : ~SameFace(tiles[j], tiles[i])
                          /\ \E j \in (i + 1) .. n : SameFace(tiles[j], tiles[i])
        starts == SelectSeq([i \in 1 .. n |-> i], isPairStart)
        results(attempt) ==
            LET found == SelectSeq(starts, LAMBDA i : attempt[i].ok)
            IN  [k \in 1 .. Len(found) |->
                    [pair |-> [suit |-> suitOf(tiles[found[k]]), value |-> valueOf(tiles[found[k]])],
                     sets |-> attempt[found[k]].sets]]
    IN  results([i \in 1 .. n |->
                    IF isPairStart(i)
                    THEN trySets(RemovePair(tiles, <<suitOf(tiles[i]), valueOf(tiles[i])>>))
                    ELSE NoSets])

Item(name, fan) == [name |-> name, fan |-> fan]

RECURSIVE SumFan(_)
SumFan(items) == IF Len(items) = 0 THEN 0 ELSE items[1].fan + SumFan(Tail(items))

MinValue(tiles) == CHOOSE m \in {valueOf(tiles[i]) : i \in 1 .. Len(tiles)} :
                       \A i \in 1 .. Len(tiles) : m <= valueOf(tiles[i])

\* the declared melds as sets
MeldSets(melds) ==
    LET used == SelectSeq(melds, LAMBDA m : Len(m.tiles) > 0)
    IN  [k \in 1 .. Len(used) |->
            [type |-> IF used[k].type = "kong" THEN "kong"
                      ELSE IF used[k].type = "pong" THEN "pong" ELSE "chow",
             suit |-> suitOf(used[k].tiles[1]),
             value |-> IF used[k].type = "chow" THEN MinValue(used[k].tiles)
                       ELSE valueOf(used[k].tiles[1]),
             isConcealed |-> FALSE]]

Names(items) == {items[i].name : i \in 1 .. Len(items)}

Without(items, names) == SelectSeq(items, LAMBDA it : it.name \notin names)

When(cond, item) == IF cond THEN <<item>> ELSE <<>>

\* Supersede that adds the higher rule and leaves the lower ones in the list
SupersedeKeepsLower(cond, items, names, item) ==
    IF cond THEN Append(items, item) ELSE items

\* a higher rule that takes the place of the named lower ones when it applies
Supersede(cond, items, names, item) ==
    IF cond THEN Append(Without(items, names), item) ELSE items

DragonItems == <<"zhongKe", "faKe", "baiKe">>
WindItems == {"quanFeng", "menFeng"}

\* the fan items of one decomposition, in the order the rule table pushes them
scoreItems(ctx, decomp) ==
    LET melds == ctx.player.melds
        isMenqing == Len(melds) = 0
        concealed == [k \in 1 .. Len(decomp.sets) |->
                         [type |-> decomp.sets[k].type, suit |-> decomp.sets[k].suit,
                          value |-> decomp.sets[k].value, isConcealed |-> TRUE]]
        rules(allSets) ==
            LET pair == decomp.pair
                suits == {pair.suit} \cup {allSets[k].suit : k \in 1 .. Len(allSets)}
                pongSets == SelectSeq(allSets, LAMBDA x : x.type = "pong" \/ x.type = "kong")
                chowSets == SelectSeq(allSets, LAMBDA x : x.type = "chow")
                concealedPongs == SelectSeq(pongSets, LAMBDA x : x.isConcealed)
                hasPong(suit, v) == \E k \in 1 .. Len(pongSets) : pongSets[k].suit = suit /\ pongSets[k].value = v
                s3 == When(ctx.isZimo, Item("zimo", 1))
                      \o When(isMenqing, Item("menqing", 1))
                      \o When(isMenqing /\ ctx.isZimo, Item("menqingZimo", 1))
                dragons == When(hasPong("dragon", 1), Item(DragonItems[1], 1))
                           \o When(hasPong("dragon", 2), Item(DragonItems[2], 1))
                           \o When(hasPong("dragon", 3), Item(DragonItems[3], 1))
                s4 == s3 \o dragons
                s5 == Supersede(Len(dragons) = 3, s4,
                                {DragonItems[1], DragonItems[2], DragonItems[3]},
                                Item("daSanYuan", 8))
                s7 == s5 \o When(hasPong("wind", ctx.prevailingWind + 1), Item("quanFeng", 1))
                         \o When(hasPong("wind", ctx.seatWind + 1), Item("menFeng", 1))
                windPongCount == Cardinality({wv \in 1 .. 4 : hasPong("wind", wv)})
                windPairCount == IF pair.suit = "wind" /\ pair.value \in 1 .. 4 THEN 1 ELSE 0
                s10 == Supersede(windPongCount = 4,
                                 Supersede(windPongCount = 3 /\ windPairCount = 1, s7,
                                           WindItems, Item("xiaoSiXi", 8)),
                                 WindItems, Item("daSiXi", 16))
                allChows == Len(pongSets) = 0
                noHonorTiles == \A x \in suits : isNumberSuit(x)
                s12 == s10 \o When(allChows /\ noHonorTiles, Item("pingHu", 1))
                           \o When(Len(chowSets) = 0 /\ Len(pongSets) > 0, Item("pengPengHu", 2))
                s13 == s12 \o When(Len(concealedPongs) >= 3, Item("sanAnKe", 2))
                s14 == Supersede(Len(concealedPongs) >= 4, s13, {"sanAnKe"}, Item("siAnKe", 5))
                numberSuits == {x \in suits : isNumberSuit(x)}
                hasHonor == \E x \in suits : isHonor(x)
                hasNumber == numberSuits # {}
                s15 == s14 \o (IF ~hasNumber /\ hasHonor THEN <<Item("ziYiSe", 16)>>
                               ELSE IF Cardinality(numberSuits) = 1 /\ ~hasHonor THEN <<Item("qingYiSe", 8)>>
                               ELSE IF Cardinality(numberSuits) = 1 /\ hasHonor THEN <<Item("hunYiSe", 4)>>
                               ELSE <<>>)
                s18 == s15 \o When(ctx.isLastTile /\ ctx.isZimo, Item("haiDiLaoYue", 1))
                           \o When(ctx.isLastTile /\ ~ctx.isZimo, Item("heDiLaoYu", 1))
                           \o When(ctx.isKongDraw, Item("gangShangKaiHua", 1))
                s19 == s18 \o When(ctx.isDealer, Item("zhuangJia", 1 + ctx.lianZhuangCount * 2))
            IN  s19 \o When(Len(melds) >= 5 /\ ~ctx.isZimo, Item("quanQiuRen", 2))
    IN  rules(MeldSets(melds) \o concealed)

\* calculateScore without the one-fan plain win for a hand that scores nothing
calculateScoreNoPlainWin(ctx) ==
    LET fullHand == Append(ctx.player.hand, ctx.winningTile)
        fallback == When(ctx.isZimo, Item("zimo", 1))
                    \o When(Len(ctx.player.melds) = 0, Item("menqing", 1))
        result(items, score) ==
            LET bestItems == items
                bestScore == score
            IN  [totalFan |-> bestScore,
                 items |-> bestItems,
                 basePoints |-> 1,
                 totalPoints |-> 1 + bestScore]
        best(decompositions, fans) ==
            LET n == Len(decompositions)
                maxFan == IF n = 0 THEN 0
                          ELSE CHOOSE m \in {fans[k] : k \in 1 .. n} : \A k \in 1 .. n : fans[k] <= m
                bestK == CHOOSE k \in 1 .. n : fans[k] = maxFan /\ \A j \in 1 .. (k - 1) : fans[j] < maxFan
            IN  IF n = 0 THEN result(fallback, SumFan(fallback))
                ELSE IF maxFan = 0 THEN result(<<>>, 0)
                ELSE result(scoreItems(ctx, decompositions[bestK]), maxFan)
        scored(decompositions) ==
            best(decompositions,
                 [k \in 1 .. Len(decompositions) |-> SumFan(scoreItems(ctx, decompositions[k]))])
    IN  scored(decomposeHand(fullHand))

\* calculateScore: the first decomposition with the highest total, the
\* fallback when nothing decomposes, and the one-fan plain win
calculateScore(ctx) ==
    LET fullHand == Append(ctx.player.hand, ctx.winningTile)
        fallback == When(ctx.isZimo, Item("zimo", 1))
                    \o When(Len(ctx.player.melds) = 0, Item("menqing", 1))
        result(items, score) ==
            LET bestItems == IF score = 0 THEN Append(items, Item("jiHu", 1)) ELSE items
                bestScore == IF score = 0 THEN 1 ELSE score
            IN  [totalFan |-> bestScore,
                 items |-> bestItems,
                 basePoints |-> 1,
                 totalPoints |-> 1 + bestScore]
        best(decompositions, fans) ==
            LET n == Len(decompositions)
                maxFan == IF n = 0 THEN 0
                          ELSE CHOOSE m \in {fans[k] : k \in 1 .. n} : \A k \in 1 .. n : fans[k] <= m
                bestK == CHOOSE k \in 1 .. n : fans[k] = maxFan /\ \A j \in 1 .. (k - 1) : fans[j] < maxFan
            IN  IF n = 0 THEN result(fallback, SumFan(fallback))
                ELSE IF maxFan = 0 THEN result(<<>>, 0)
                ELSE result(scoreItems(ctx, decompositions[bestK]), maxFan)
        scored(decompositions) ==
            best(decompositions,
                 [k \in 1 .. Len(decompositions) |-> SumFan(scoreItems(ctx, decompositions[k]))])
    IN  scored(decomposeHand(fullHand))

\* ------------------------------------------------------------------------
\* Dark Chess rules (gameLogic)
\* ------------------------------------------------------------------------

PieceTypes == {"king", "advisor", "elephant", "rook", "knight", "cannon", "pawn"}

Colors == {"red", "black"}

\* how many pieces of each type initializeBoard makes for each colour
PieceCounts ==
    [king |-> 1, advisor |-> 2, elephant |-> 2, rook |-> 2, knight |-> 2, cannon |-> 2, pawn |-> 5]

PIECE_VALUES ==
    [king |-> 7, advisor |-> 6, elephant |-> 5, rook |-> 4, knight |-> 3, cannon |-> 2, pawn |-> 1]

COLS == 8

\* the board is an array of 32 entries, each a piece or null
Squares == 0 .. 31

\* null
NoPiece == [type |-> "", color |-> "", isFlipped |-> FALSE, position |-> -1]

Abs(x) == IF x < 0 THEN 0 - x ELSE x

Min2(a, b) == IF a < b THEN a ELSE b

Max2(a, b) == IF a < b THEN b ELSE a

\* isValidMove by the distance of the square numbers alone
isValidMoveBySquareNumber(from, to) == Abs(from - to) = 1 \/ Abs(from - to) = COLS

isValidMove(from, to) ==
    LET fromRow == from \div COLS
        fromCol == from % COLS
        toRow == to \div COLS
        toCol == to % COLS
        rowDiff == Abs(fromRow - toRow)
        colDiff == Abs(fromCol - toCol)
    IN  (rowDiff = 1 /\ colDiff = 0) \/ (rowDiff = 0 /\ colDiff = 1)

\* canCapture with a cannon that needs one piece or more in between
canCaptureOverAnyScreen(attacker, target, board) ==
    LET from == attacker.position
        to == target.position
        fromRow == from \div COLS
        fromCol == from % COLS
        toRow == to \div COLS
        toCol == to % COLS
        count == IF fromRow = toRow
                 THEN Cardinality({c \in (Min2(fromCol, toCol) + 1) .. (Max2(fromCol, toCol) - 1) :
                                      board[fromRow * COLS + c] # NoPiece})
                 ELSE Cardinality({r \in (Min2(fromRow, toRow) + 1) .. (Max2(fromRow, toRow) - 1) :
                                      board[r * COLS + fromCol] # NoPiece})
    IN  IF attacker.color = target.color THEN FALSE
        ELSE IF ~target.isFlipped THEN FALSE
        ELSE IF attacker.type = "cannon"
             THEN IF fromRow # toRow /\ fromCol # toCol THEN FALSE ELSE count >= 1
        ELSE IF ~isValidMove(from, to) THEN FALSE
        ELSE IF attacker.type = "king" /\ target.type = "pawn" THEN FALSE
        ELSE IF attacker.type = "pawn" /\ target.type = "king" THEN TRUE
        ELSE PIECE_VALUES[attacker.type] >= PIECE_VALUES[target.type]

\* canCapture by rank alone, without the rules for king and pawn
canCaptureByRankOnly(attacker, target, board) ==
    LET from == attacker.position
        to == target.position
        fromRow == from \div COLS
        fromCol == from % COLS
        toRow == to \div COLS
        toCol == to % COLS
        count == IF fromRow = toRow
                 THEN Cardinality({c \in (Min2(fromCol, toCol) + 1) .. (Max2(fromCol, toCol) - 1) :
                                      board[fromRow * COLS + c] # NoPiece})
                 ELSE Cardinality({r \in (Min2(fromRow, toRow) + 1) .. (Max2(fromRow, toRow) - 1) :
                                      board[r * COLS + fromCol] # NoPiece})
    IN  IF attacker.color = target.color THEN FALSE
        ELSE IF ~target.isFlipped THEN FALSE
        ELSE IF attacker.type = "cannon"
             THEN IF fromRow # toRow /\ fromCol # toCol THEN FALSE ELSE count = 1
        ELSE IF ~isValidMove(from, to) THEN FALSE
        ELSE PIECE_VALUES[attacker.type] >= PIECE_VALUES[target.type]

canCapture(attacker, target, board) ==
    LET from == attacker.position
        to == target.position
        fromRow == from \div COLS
        fromCol == from % COLS
        toRow == to \div COLS
        toCol == to % COLS
        count == IF fromRow = toRow
                 THEN Cardinality({c \in (Min2(fromCol, toCol) + 1) .. (Max2(fromCol, toCol) - 1) :
                                      board[fromRow * COLS + c] # NoPiece})
                 ELSE Cardinality({r \in (Min2(fromRow, toRow) + 1) .. (Max2(fromRow, toRow) - 1) :
                                      board[r * COLS + fromCol] # NoPiece})
    IN  IF attacker.color = target.color THEN FALSE
        ELSE IF ~target.isFlipped THEN FALSE
        ELSE IF attacker.type = "cannon"
             THEN IF fromRow # toRow /\ fromCol # toCol THEN FALSE ELSE count = 1
        ELSE IF ~isValidMove(from, to) THEN FALSE
        ELSE IF attacker.type = "king" /\ target.type = "pawn" THEN FALSE
        ELSE IF attacker.type = "pawn" /\ target.type = "king" THEN TRUE
        ELSE PIECE_VALUES[attacker.type] >= PIECE_VALUES[target.type]

\* checkWinner's null
NoColor == "none"

\* checkWinner that names the colour without pieces
checkWinnerNamesLoser(board) ==
    IF \A sq \in Squares : board[sq] = NoPiece \/ board[sq].color # "red" THEN "red"
    ELSE IF \A sq \in Squares : board[sq] = NoPiece \/ board[sq].color # "black" THEN "black"
    ELSE NoColor

checkWinner(board) ==
    IF \A sq \in Squares : board[sq] = NoPiece \/ board[sq].color # "red" THEN "black"
    ELSE IF \A sq \in Squares : board[sq] = NoPiece \/ board[sq].color # "black" THEN "red"
    ELSE NoColor

\* ------------------------------------------------------------------------
\* Big Two rules (bigTwoLogic)
\*
\* A card is its index 0..51 in initializeBigTwoDeck: suits in the order
\* clubs, diamonds, hearts, spades, and the ranks 3..15 within each suit.  A
\* list of cards is a sequence; a hand type is a string, "none" for null.
\* ------------------------------------------------------------------------

RanksPerSuit == 13

initializeBigTwoDeck == [i \in 1 .. (4 * RanksPerSuit) |-> i - 1]

BigTwoCards == {initializeBigTwoDeck[i] : i \in 1 .. Len(initializeBigTwoDeck)}

\* SUIT_ORDER of the card's suit
cardSuit(c) == c \div RanksPerSuit

cardRank(c) == (c % RanksPerSuit) + 3

\* the card of a suit and a rank
CardOf(suit, rank) == suit * RanksPerSuit + (rank - 3)

\* c.suit === 'clubs' && c.rank === 3
isClub3(c) == cardSuit(c) = 0 /\ cardRank(c) = 3

hasClub3(cards) == \E i \in 1 .. Len(cards) : isClub3(cards[i])

compareBigTwoCards(a, b) ==
    IF cardRank(a) # cardRank(b) THEN cardRank(a) - cardRank(b)
    ELSE cardSuit(a) - cardSuit(b)

\* the cards of a set in the order of [...cards].sort(compareBigTwoCards)
RECURSIVE sortCards(_)
sortCards(S) ==
    IF S = {} THEN <<>>
    ELSE LET low == CHOOSE c \in S : \A d \in S : compareBigTwoCards(c, d) <= 0
         IN  <<low>> \o sortCards(S \ {low})

CardSet(cards) == {cards[i] : i \in 1 .. Len(cards)}

\* cards.reduce((max, c) => compareBigTwoCards(c, max) > 0 ? c : max, cards[0])
RECURSIVE getHighCard(_)
getHighCard(cards) ==
    IF Len(cards) = 1 THEN cards[1]
    ELSE LET max == getHighCard(SubSeq(cards, 1, Len(cards) - 1))
             c == cards[Len(cards)]
         IN  IF compareBigTwoCards(c, max) > 0 THEN c ELSE max

NoHandType == "none"

isPair(cards) == Len(cards) = 2 /\ cardRank(cards[1]) = cardRank(cards[2])

isTriple(cards) ==
    /\ Len(cards) = 3
    /\ cardRank(cards[1]) = cardRank(cards[2])
    /\ cardRank(cards[2]) = cardRank(cards[3])

\* isConsecutive that lets the 2 stand at the top of a run
isConsecutiveWithTwo(ranks) ==
    \A i \in 2 .. Len(ranks) : ranks[i] = ranks[i - 1] + 1

\* the ranks arrive sorted from detect5CardHand, so the inner sort keeps them
isConsecutive(ranks) ==
    IF \E i \in 1 .. Len(ranks) : ranks[i] = 15 THEN FALSE
    ELSE \A i \in 2 .. Len(ranks) : ranks[i] = ranks[i - 1] + 1

\* the counts of getRankCounts, as a function of the ranks that occur
getRankCounts(ranks) ==
    [r \in {ranks[i] : i \in 1 .. Len(ranks)} |->
        Cardinality({i \in 1 .. Len(ranks) : ranks[i] = r})]

isFourOfAKind(ranks) ==
    LET counts == getRankCounts(ranks)
    IN  \E r \in DOMAIN counts : counts[r] = 4

isFullHouse(ranks) ==
    LET counts == getRankCounts(ranks)
    IN  /\ Cardinality(DOMAIN counts) = 2
        /\ \E r \in DOMAIN counts : counts[r] = 2
        /\ \E r \in DOMAIN counts : counts[r] = 3

\* detect5CardHand that takes a plain flush for a play
detect5CardHandWithFlush(cards) ==
    LET sorted == sortCards(CardSet(cards))
        ranks == [i \in 1 .. Len(sorted) |-> cardRank(sorted[i])]
        isStraightCheck == isConsecutive(ranks)
        isFlushCheck == \A i \in 1 .. Len(sorted) : cardSuit(sorted[i]) = cardSuit(sorted[1])
    IN  IF isStraightCheck /\ isFlushCheck THEN "straight_flush"
        ELSE IF isFourOfAKind(ranks) THEN "four_of_a_kind"
        ELSE IF isFullHouse(ranks) THEN "full_house"
        ELSE IF isFlushCheck THEN "straight"
        ELSE IF isStraightCheck THEN "straight"
        ELSE NoHandType

detect5CardHand(cards) ==
    LET sorted == sortCards(CardSet(cards))
        ranks == [i \in 1 .. Len(sorted) |-> cardRank(sorted[i])]
        isStraightCheck == isConsecutive(ranks)
        isFlushCheck == \A i \in 1 .. Len(sorted) : cardSuit(sorted[i]) = cardSuit(sorted[1])
    IN  IF isStraightCheck /\ isFlushCheck THEN "straight_flush"
        ELSE IF isFourOfAKind(ranks) THEN "four_of_a_kind"
        ELSE IF isFullHouse(ranks) THEN "full_house"
        ELSE IF isFlushCheck THEN NoHandType
        ELSE IF isStraightCheck THEN "straight"
        ELSE NoHandType

detectHandType(cards) ==
    LET n == Len(cards)
    IN  IF n = 1 THEN "single"
        ELSE IF n = 2 THEN (IF isPair(cards) THEN "pair" ELSE NoHandType)
        ELSE IF n = 3 THEN (IF isTriple(cards) THEN "triple" ELSE NoHandType)
        ELSE IF n = 5 THEN detect5CardHand(cards)
        ELSE NoHandType

HAND_TYPE_POWER ==
    [single |-> 0, pair |-> 0, triple |-> 0, straight |-> 1, full_house |-> 2,
     four_of_a_kind |-> 3, straight_flush |-> 4]

\* getTripleRank (count 3) and getFourRank (count 4): the lowest rank that
\* occurs that often, 0 when none does
rankWithCount(cards, count) ==
    LET counts == getRankCounts([i \in 1 .. Len(cards) |-> cardRank(cards[i])])
        hits == {r \in DOMAIN counts : counts[r] = count}
    IN  IF hits = {} THEN 0 ELSE CHOOSE r \in hits : \A q \in hits : r <= q

getTripleRank(cards) == rankWithCount(cards, 3)

getFourRank(cards) == rankWithCount(cards, 4)

\* canBeatPlay that compares every hand by its highest card
canBeatPlayByHighCard(play, lastPlay) ==
    IF Len(play.cards) # Len(lastPlay.cards) THEN FALSE
    ELSE IF play.handType # lastPlay.handType /\ Len(play.cards) = 5
    THEN HAND_TYPE_POWER[play.handType] > HAND_TYPE_POWER[lastPlay.handType]
    ELSE IF play.handType # lastPlay.handType THEN FALSE
    ELSE compareBigTwoCards(getHighCard(play.cards), getHighCard(lastPlay.cards)) > 0

\* the branch for different card counts can only return false: two lists of
\* different lengths are never both of length 5
canBeatPlay(play, lastPlay) ==
    IF Len(play.cards) # Len(lastPlay.cards) THEN FALSE
    ELSE IF play.handType # lastPlay.handType /\ Len(play.cards) = 5
    THEN HAND_TYPE_POWER[play.handType] > HAND_TYPE_POWER[lastPlay.handType]
    ELSE IF play.handType # lastPlay.handType THEN FALSE
    ELSE CASE play.handType = "single" ->
                  compareBigTwoCards(play.cards[1], lastPlay.cards[1]) > 0
           [] play.handType \in {"pair", "triple", "straight", "straight_flush"} ->
                  compareBigTwoCards(getHighCard(play.cards), getHighCard(lastPlay.cards)) > 0
           [] play.handType = "full_house" ->
                  getTripleRank(play.cards) > getTripleRank(lastPlay.cards)
           [] play.handType = "four_of_a_kind" ->
                  getFourRank(play.cards) > getFourRank(lastPlay.cards)
           [] OTHER -> FALSE

\* lastPlay is a sequence: empty when the field is absent, else the one play
isValidPlay(cards, lastPlay, isNewRound, isFirstPlayOfGame) ==
    LET handType == detectHandType(cards)
    IN  IF Len(cards) = 0 THEN [valid |-> FALSE, handType |-> NoHandType]
        ELSE IF handType = NoHandType THEN [valid |-> FALSE, handType |-> NoHandType]
        ELSE IF isFirstPlayOfGame /\ ~hasClub3(cards) THEN [valid |-> FALSE, handType |-> handType]
        ELSE IF isNewRound \/ lastPlay = <<>> THEN [valid |-> TRUE, handType |-> handType]
        ELSE IF ~canBeatPlay([cards |-> cards, handType |-> handType, playerId |-> ""], lastPlay[1])
             THEN [valid |-> FALSE, handType |-> handType]
        ELSE [valid |-> TRUE, handType |-> handType]

\* dealBigTwoCards: card i of the deck goes to hand i % 4, each hand sorted
dealBigTwoCards(deck) ==
    [h \in 0 .. 3 |-> sortCards({deck[i] : i \in {j \in 1 .. Len(deck) : (j - 1) % 4 = h}})]

\* findClub3Holder: the first hand with the club 3, 0 when none has it
findClub3Holder(hands) ==
    LET holders == {i \in DOMAIN hands : hasClub3(hands[i])}
    IN  IF holders = {} THEN 0 ELSE CHOOSE i \in holders : \A j \in holders : i <= j

\* findPairs: neighbours of equal rank in the sorted hand, a card used once
RECURSIVE findPairs(_)
findPairs(sorted) ==
    IF Len(sorted) < 2 THEN <<>>
    ELSE IF cardRank(sorted[1]) = cardRank(sorted[2])
    THEN <<SubSeq(sorted, 1, 2)>> \o findPairs(SubSeq(sorted, 3, Len(sorted)))
    ELSE findPairs(Tail(sorted))

\* find5CardHands: the windows of five neighbours that are a legal
\* combination, then for each rank held three times or more its first three
\* cards with the first two of every other rank held twice or more
find5CardHands(sorted) ==
    LET n == Len(sorted)
        windows == [i \in 1 .. (IF n >= 5 THEN n - 4 ELSE 0) |-> SubSeq(sorted, i, i + 4)]
        straights == SelectSeq(windows, LAMBDA w : detectHandType(w) # NoHandType)
        rankCounts == getRankCounts([i \in 1 .. n |-> cardRank(sorted[i])])
        ofRank(r) == SelectSeq(sorted, LAMBDA c : cardRank(c) = r)
        rankList == sortCards({CardOf(0, r) : r \in DOMAIN rankCounts})
        ranks == [i \in 1 .. Len(rankList) |-> cardRank(rankList[i])]
        fullHouse(i, j) ==
            IF i # j /\ rankCounts[ranks[i]] >= 3 /\ rankCounts[ranks[j]] >= 2
            THEN <<SubSeq(ofRank(ranks[i]), 1, 3) \o SubSeq(ofRank(ranks[j]), 1, 2)>>
            ELSE <<>>
        m == Len(ranks)
        pick[k \in 0 .. (m * m)] ==
            IF k = 0 THEN <<>>
            ELSE pick[k - 1] \o fullHouse(((k - 1) \div m) + 1, ((k - 1) % m) + 1)
    IN  straights \o pick[m * m]

\* botSelectCards: the cards the bot plays, the empty list when it passes
botSelectCards(hand, lastPlay, isNewRound, isFirstPlayOfGame) ==
    LET sorted == sortCards(CardSet(hand))
        firstThat(list, Test(_)) ==
            LET hits == {i \in 1 .. Len(list) : Test(list[i])}
            IN  IF hits = {} THEN <<>> ELSE list[CHOOSE i \in hits : \A j \in hits : i <= j]
    IN  IF isNewRound \/ lastPlay = <<>>
        THEN IF isFirstPlayOfGame /\ hasClub3(sorted)
             THEN <<CardOf(0, 3)>>
             ELSE <<sorted[1]>>
        ELSE LET cardCount == Len(lastPlay[1].cards)
             IN  IF cardCount = 1
                 THEN firstThat([i \in 1 .. Len(sorted) |-> <<sorted[i]>>],
                                LAMBDA p : compareBigTwoCards(p[1], lastPlay[1].cards[1]) > 0)
                 ELSE IF cardCount = 2 /\ lastPlay[1].handType = "pair"
                 THEN firstThat(findPairs(sorted),
                                LAMBDA p : compareBigTwoCards(getHighCard(p),
                                                              getHighCard(lastPlay[1].cards)) > 0)
                 ELSE IF cardCount = 5
                 THEN firstThat(find5CardHands(sorted),
                                LAMBDA p : /\ detectHandType(p) # NoHandType
                                           /\ canBeatPlay([cards |-> p,
                                                           handType |-> detectHandType(p),
                                                           playerId |-> ""], lastPlay[1]))
                 ELSE <<>>

\* ------------------------------------------------------------------------
\* State
\* ------------------------------------------------------------------------

VARIABLES
    game,        \* the Mahjong record stored at games/<id> (MahjongGameState)
    last,        \* history: the handler that ran last, for whom, and whether it wrote
    huTiles,     \* checkHu: the tiles handed to checkHu, in the caller's order
    huResult,    \* checkHu: "unset" before the call, then "true" or "false"
    stale,       \* the mahjongState of each client that has not yet received the
                 \* latest record (clients outside its domain see `game`)
    claims,      \* history: the discarded tiles a hu, pong, kong or chi has written for
    scoreCtx,    \* calculateScore: the ScoringContext handed to it
    scoreResult, \* calculateScore: empty before the call, then the one ScoringResult
    chess,       \* the Dark Chess record stored at games/<id> (GameState)
    chessLast,   \* history: the Dark Chess handler that ran last, its arguments and
                 \* whether it wrote
    capArgs,     \* canCapture, checkWinner: the attacker, the target and the board
    capResult,   \* canCapture, checkWinner: the function called and what it returned
    bigTwo,      \* the Big Two record stored at games/<id> (BigTwoGameState)
    bigLast      \* history: the Big Two handler or function that ran last, its
                 \* arguments and what came of it

mjVars == <<game, last>>
huVars == <<huTiles, huResult>>
raceVars == <<stale, claims>>
scoreVars == <<scoreCtx, scoreResult>>
chessVars == <<chess, chessLast, capArgs, capResult>>
bigVars == <<bigTwo, bigLast>>
vars == <<mjVars, huVars, raceVars, scoreVars, chessVars, bigVars>>

\* no call of calculateScore is being followed
ScoreIdle == scoreCtx = <<>> /\ scoreResult = <<>>

\* no call of canCapture or checkWinner is being followed
CaptureIdle == capArgs = <<>> /\ capResult = [op |-> "", value |-> ""]

\* no Dark Chess game is being followed
ChessIdle == chess = <<>> /\ chessLast = <<>> /\ CaptureIdle

\* no Big Two game or function is being followed
BigIdle == bigTwo = <<>> /\ bigLast = <<>>

\* ------------------------------------------------------------------------
\* Mahjong: the room, the stored record and partial updates
\* ------------------------------------------------------------------------

\* the room: the host, one more human, and two bots filled in by startGame
Host == "u1"
Humans == {"u1", "u2"}
BotIds == {"bot_1", "bot_2"}
activePlayers == [i \in 0 .. 3 |-> <<"u1", "u2", "bot_1", "bot_2">>[i + 1]]

\* id.startsWith('bot_')
isBot(id) == id \in BotIds

Seats == 0 .. 3

\* players.findIndex(p => p.id === id); -1 when absent
IndexOf(s, id) ==
    IF \E i \in Seats : s.players[i].id = id
    THEN CHOOSE i \in Seats : s.players[i].id = id
    ELSE -1

\* hand.length + meldCount * 3
EffectiveSize(player) == Len(player.hand) + Len(player.melds) * 3

getPlayerTileState(player) ==
    IF EffectiveSize(player) <= 16 THEN "need_draw" ELSE "need_discard"

HasPending(s) == Len(s.pendingAction) > 0
PA(s) == s.pendingAction[1]

\* update(ref, fields): a field-wise merge of the written fields into the
\* stored record.  skipActionForPlayer writes below games/<id>/pendingAction;
\* its two fields are carried under the keys "pendingAction/...".
NoWrite == [k \in {} |-> TRUE]

Merge(s, u) ==
    LET top == [k \in DOMAIN s |-> IF k \in DOMAIN u THEN u[k] ELSE s[k]]
    IN  IF "pendingAction/targetPlayers" \in DOMAIN u
        THEN [top EXCEPT !.pendingAction =
                IF HasPending(s)
                THEN << [PA(s) EXCEPT !.targetPlayers = u["pendingAction/targetPlayers"],
                                      !.actions = u["pendingAction/actions"]] >>
                ELSE << [tile |-> NoTile, fromPlayer |-> "",
                         targetPlayers |-> u["pendingAction/targetPlayers"],
                         actions |-> u["pendingAction/actions"]] >>]
        ELSE top

\* ------------------------------------------------------------------------
\* Mahjong: deal
\* ------------------------------------------------------------------------

HandSize == 16

\* dealTiles: sixteen rounds of one tile to each of the four hands, popped
\* from the end of the array, then a seventeenth tile to hands[0]
dealTiles(shuffledTiles) ==
    LET n == Len(shuffledTiles)
        raw(p) == [i \in 1 .. HandSize |-> shuffledTiles[n - (4 * (i - 1) + p)]]
        dealerTile == shuffledTiles[n - 4 * HandSize]
    IN  [hands |-> [p \in 0 .. 3 |->
                      sortHand(IF p = 0 THEN Append(raw(p), dealerTile) ELSE raw(p))],
         wall |-> SubSeq(shuffledTiles, 1, n - 4 * HandSize - 1)]

\* the Mahjong branch of startGame for a shuffled deck and a dice result
startGame(tiles, dealerIndex) ==
    LET dealt == dealTiles(tiles)
    IN  [players |-> [index \in Seats |->
                        [id |-> activePlayers[index],
                         wind |-> (index - dealerIndex + 4) % 4,
                         hand |-> dealt.hands[(index - dealerIndex + 4) % 4],
                         melds |-> <<>>,
                         discarded |-> <<>>,
                         score |-> 0]],
         wall |-> dealt.wall,
         wallCount |-> Len(dealt.wall),
         currentTurn |-> activePlayers[dealerIndex],
         prevailingWind |-> 0,
         dealer |-> dealerIndex,
         gameStatus |-> "playing",
         round |-> 1,
         totalRounds |-> 16,
         lianZhuangCount |-> 0,
         endReason |-> "",
         winner |-> "",
         winningHand |-> <<>>,
         scoringResult |-> <<>>,
         lastDiscard |-> NoTile,
         pendingAction |-> <<>>,
         isZimo |-> FALSE,
         isLastTile |-> FALSE,
         isKongDraw |-> FALSE,
         lastDrawnTileId |-> NoTile,
         discardedTiles |-> <<>>]

\* ------------------------------------------------------------------------
\* Mahjong: handlers, each a function from the state it reads to the fields
\* it writes
\* ------------------------------------------------------------------------

DeadWall == 16

WithPlayer(players, idx, p) == [players EXCEPT ![idx] = p]

\* drawMahjongTile that never declares the exhaustive draw
drawMahjongTileNeverExhausts(s, user) ==
    LET currentPlayerId == s.currentTurn
        playerIndex == IndexOf(s, currentPlayerId)
        player == s.players[playerIndex]
        tile == s.wall[Len(s.wall)]
        newWall == SubSeq(s.wall, 1, Len(s.wall) - 1)
        newHand == sortHand(Append(player.hand, tile))
        newPlayers == WithPlayer(s.players, playerIndex, [player EXCEPT !.hand = newHand])
    IN  IF s.gameStatus # "playing" THEN NoWrite
        ELSE IF HasPending(s) THEN NoWrite
        ELSE IF currentPlayerId # user /\ ~isBot(currentPlayerId) THEN NoWrite
        ELSE IF playerIndex = -1 THEN NoWrite
        ELSE IF EffectiveSize(player) >= 17 THEN NoWrite
        ELSE IF Len(s.wall) <= DeadWall
             THEN NoWrite
        ELSE IF checkHu(newHand)
             THEN [wall |-> newWall, wallCount |-> Len(newWall), players |-> newPlayers,
                   lastDrawnTileId |-> tile,
                   pendingAction |-> << [tile |-> tile, fromPlayer |-> currentPlayerId,
                                         targetPlayers |-> <<currentPlayerId>>,
                                         actions |-> << [playerId |-> currentPlayerId,
                                                         canPong |-> FALSE, canKong |-> FALSE,
                                                         canChi |-> FALSE, canHu |-> TRUE] >>] >>]
        ELSE [wall |-> newWall, wallCount |-> Len(newWall), players |-> newPlayers,
              lastDrawnTileId |-> tile]

drawMahjongTile(s, user) ==
    LET currentPlayerId == s.currentTurn
        playerIndex == IndexOf(s, currentPlayerId)
        player == s.players[playerIndex]
        tile == s.wall[Len(s.wall)]
        newWall == SubSeq(s.wall, 1, Len(s.wall) - 1)
        newHand == sortHand(Append(player.hand, tile))
        newPlayers == WithPlayer(s.players, playerIndex, [player EXCEPT !.hand = newHand])
    IN  IF s.gameStatus # "playing" THEN NoWrite
        ELSE IF HasPending(s) THEN NoWrite
        ELSE IF currentPlayerId # user /\ ~isBot(currentPlayerId) THEN NoWrite
        ELSE IF playerIndex = -1 THEN NoWrite
        ELSE IF EffectiveSize(player) >= 17 THEN NoWrite
        ELSE IF Len(s.wall) <= DeadWall
             THEN [gameStatus |-> "ended", endReason |-> "exhaustive_draw", pendingAction |-> <<>>]
        ELSE IF checkHu(newHand)
             THEN [wall |-> newWall, wallCount |-> Len(newWall), players |-> newPlayers,
                   lastDrawnTileId |-> tile,
                   pendingAction |-> << [tile |-> tile, fromPlayer |-> currentPlayerId,
                                         targetPlayers |-> <<currentPlayerId>>,
                                         actions |-> << [playerId |-> currentPlayerId,
                                                         canPong |-> FALSE, canKong |-> FALSE,
                                                         canChi |-> FALSE, canHu |-> TRUE] >>] >>]
        ELSE [wall |-> newWall, wallCount |-> Len(newWall), players |-> newPlayers,
              lastDrawnTileId |-> tile]

\* the claim record of seat i against a tile discarded by the seat discarderIdx,
\* with the flag that tells whether the code pushes it
ClaimOf(s, i, discarderIdx, tile) ==
    LET p == s.players[i]
        isNextPlayer == p.wind = (s.players[discarderIdx].wind + 1) % 4
        pongResult == canPong(p.hand, tile)
        kongResult == canKong(p.hand, tile)
        chiResult == IF isNextPlayer THEN canChi(p.hand, tile) ELSE FALSE
        winResult == checkHu(Append(p.hand, tile))
    IN  [pushed |-> /\ i # discarderIdx
                    /\ Len(p.hand) > 0
                    /\ (pongResult \/ kongResult \/ chiResult \/ winResult),
         action |-> [playerId |-> p.id, canPong |-> pongResult, canKong |-> kongResult,
                     canChi |-> chiResult, canHu |-> winResult]]

\* the pendingActions array: the pushed claim records in seat order
ClaimActions(s, discarderIdx, tile) ==
    LET all == [k \in 1 .. 4 |-> ClaimOf(s, k - 1, discarderIdx, tile)]
        pushed == SelectSeq(all, LAMBDA c : c.pushed)
    IN  [k \in 1 .. Len(pushed) |-> pushed[k].action]

\* Priority: Hu(3) > Pong/Kong(2) > Chi(1)
getScore(pa) ==
    IF pa.canHu THEN 3
    ELSE IF pa.canPong \/ pa.canKong THEN 2
    ELSE IF pa.canChi THEN 1
    ELSE 0

SeqMax(seq) == CHOOSE m \in {seq[i] : i \in 1 .. Len(seq)} : \A i \in 1 .. Len(seq) : seq[i] <= m

\* the first entry of the highest-priority claims; among Hu claims the one at
\* the smallest downstream distance from the seat fromIdx (a stable sort)
FirstTarget(s, actions, fromIdx) ==
    LET maxScore == SeqMax([i \in 1 .. Len(actions) |-> getScore(actions[i])])
        best == SelectSeq(actions, LAMBDA a : getScore(a) = maxScore)
        dist(a) == (IndexOf(s, a.playerId) - fromIdx + 4) % 4
    IN  IF maxScore = 3
        THEN (CHOOSE k \in 1 .. Len(best) :
                 /\ \A j \in 1 .. Len(best) : dist(best[k]) <= dist(best[j])
                 /\ \A j \in 1 .. (k - 1) : dist(best[j]) > dist(best[k]))
        ELSE 1

FirstTargetId(s, actions, fromIdx) ==
    LET maxScore == SeqMax([i \in 1 .. Len(actions) |-> getScore(actions[i])])
        best == SelectSeq(actions, LAMBDA a : getScore(a) = maxScore)
    IN  best[FirstTarget(s, actions, fromIdx)].playerId

discardMahjongTile(s, user, tileId) ==
    LET currentPlayerId == s.currentTurn
        playerIndex == IndexOf(s, currentPlayerId)
        player == s.players[playerIndex]
        hand == player.hand
        tileIndex == FindIndex(hand, LAMBDA t : t = tileId)
        tile == hand[tileIndex]
        newPlayers == WithPlayer(s.players, playerIndex,
                          [player EXCEPT !.hand = sortHand(RemoveAt(hand, tileIndex)),
                                         !.discarded = Append(player.discarded, tile)])
        pendingActions == ClaimActions(s, playerIndex, tile)
        updateData == [players |-> newPlayers,
                       lastDrawnTileId |-> NoTile,
                       lastDiscard |-> tile,
                       discardedTiles |-> Append(s.discardedTiles, tile)]
    IN  IF s.gameStatus # "playing" THEN NoWrite
        ELSE IF HasPending(s) THEN NoWrite
        ELSE IF currentPlayerId # user /\ ~isBot(currentPlayerId) THEN NoWrite
        ELSE IF playerIndex = -1 THEN NoWrite
        ELSE IF tileIndex = 0 THEN NoWrite
        ELSE IF Len(pendingActions) > 0
             THEN updateData @@
                  [pendingAction |-> << [tile |-> tile, fromPlayer |-> currentPlayerId,
                                         targetPlayers |-> <<FirstTargetId(s, pendingActions, playerIndex)>>,
                                         actions |-> pendingActions] >>]
        ELSE updateData @@
             [currentTurn |-> s.players[(playerIndex + 1) % 4].id,
              pendingAction |-> <<>>]

\* remove up to n tiles of the tile's face, scanning the hand from the back
RECURSIVE RemoveFromBack(_, _, _, _)
RemoveFromBack(hand, tile, n, i) ==
    IF i = 0 \/ n = 0 THEN hand
    ELSE IF SameFace(hand[i], tile)
         THEN RemoveFromBack(RemoveAt(hand, i), tile, n - 1, i - 1)
         ELSE RemoveFromBack(hand, tile, n, i - 1)

WithoutId(seq, tileId) == SelectSeq(seq, LAMBDA t : t # tileId)

\* "Remove from fromPlayer's discarded list"
DropDiscard(players, fromIdx, tileId) ==
    IF fromIdx = -1 THEN players
    ELSE [players EXCEPT ![fromIdx].discarded = WithoutId(players[fromIdx].discarded, tileId)]

\* scoringResult is a sequence: empty when the field is absent, else the one
\* result of calculateScore
performHuForPlayer(s, playerId) ==
    LET hasPa == HasPending(s)
        tile == IF hasPa THEN PA(s).tile ELSE s.lastDiscard
        playerIndex == IndexOf(s, playerId)
        player == s.players[playerIndex]
        isZimo == ~hasPa
        isLastTile == s.wallCount = 0
        currentDealerId == s.players[s.dealer].id
        isDealerWin == playerId = currentDealerId
        isDealerLoss == hasPa /\ PA(s).fromPlayer = currentDealerId
        shouldAddZhuangFan == isDealerWin \/ isDealerLoss
        fromPlayerId == IF hasPa THEN PA(s).fromPlayer ELSE ""
        updates(scoringResult) ==
            LET newScore(p) == IF p.id = playerId
                               THEN IF isZimo THEN p.score + scoringResult.totalPoints * 3
                                    ELSE p.score + scoringResult.totalPoints
                               ELSE IF isZimo THEN p.score - scoringResult.totalPoints
                               ELSE IF p.id = fromPlayerId THEN p.score - scoringResult.totalPoints
                               ELSE p.score
                updatedPlayers == [i \in Seats |->
                                      [s.players[i] EXCEPT !.score = newScore(s.players[i])]]
            IN  [gameStatus |-> "ended",
                 endReason |-> "hu",
                 winner |-> playerId,
                 winningHand |-> Append(player.hand, tile),
                 scoringResult |-> <<scoringResult>>,
                 isZimo |-> isZimo,
                 isLastTile |-> isLastTile,
                 players |-> updatedPlayers]
    IN  IF tile = NoTile THEN NoWrite
        ELSE updates(calculateScore([player |-> player,
                                     winningTile |-> tile,
                                     isZimo |-> isZimo,
                                     isLastTile |-> isLastTile,
                                     isKongDraw |-> s.isKongDraw,
                                     prevailingWind |-> s.prevailingWind,
                                     seatWind |-> player.wind,
                                     isDealer |-> shouldAddZhuangFan,
                                     lianZhuangCount |-> s.lianZhuangCount]))

\* performPongForPlayer that takes one tile from the hand instead of two
performPongTakesOne(s, playerId) ==
    IF ~HasPending(s) THEN NoWrite
    ELSE IF PA(s).tile = NoTile THEN NoWrite
    ELSE LET tile == PA(s).tile
             playerIndex == IndexOf(s, playerId)
             player == s.players[playerIndex]
             newHand == RemoveFromBack(player.hand, tile, 1, Len(player.hand))
             fromPlayerId == PA(s).fromPlayer
             fromPlayerIndex == IndexOf(s, fromPlayerId)
             newMeld == [type |-> "pong", tiles |-> <<tile, tile, tile>>, fromPlayer |-> fromPlayerId]
             claimed == WithPlayer(s.players, playerIndex,
                            [player EXCEPT !.hand = sortHand(newHand),
                                           !.melds = Append(player.melds, newMeld)])
         IN  [players |-> DropDiscard(claimed, fromPlayerIndex, tile),
              pendingAction |-> <<>>,
              currentTurn |-> playerId,
              lastDrawnTileId |-> NoTile,
              discardedTiles |-> WithoutId(s.discardedTiles, tile)]

\* a pendingAction without a tile makes tile.suit throw before anything is
\* written
performPongForPlayer(s, playerId) ==
    IF ~HasPending(s) THEN NoWrite
    ELSE IF PA(s).tile = NoTile THEN NoWrite
    ELSE LET tile == PA(s).tile
             playerIndex == IndexOf(s, playerId)
             player == s.players[playerIndex]
             newHand == RemoveFromBack(player.hand, tile, 2, Len(player.hand))
             fromPlayerId == PA(s).fromPlayer
             fromPlayerIndex == IndexOf(s, fromPlayerId)
             newMeld == [type |-> "pong", tiles |-> <<tile, tile, tile>>, fromPlayer |-> fromPlayerId]
             claimed == WithPlayer(s.players, playerIndex,
                            [player EXCEPT !.hand = sortHand(newHand),
                                           !.melds = Append(player.melds, newMeld)])
         IN  [players |-> DropDiscard(claimed, fromPlayerIndex, tile),
              pendingAction |-> <<>>,
              currentTurn |-> playerId,
              lastDrawnTileId |-> NoTile,
              discardedTiles |-> WithoutId(s.discardedTiles, tile)]

\* performKongForPlayer that hands out the replacement tile and leaves the
\* wall as it was
performKongKeepsWall(s, playerId, tileArg) ==
    LET targetTile == IF tileArg # NoTile THEN tileArg
                      ELSE IF HasPending(s) THEN PA(s).tile ELSE NoTile
        playerIndex == IndexOf(s, playerId)
        player == s.players[playerIndex]
        newHand == RemoveFromBack(player.hand, targetTile, 3, Len(player.hand))
        fromPlayerId == IF HasPending(s) /\ PA(s).fromPlayer # "" THEN PA(s).fromPlayer ELSE playerId
        fromPlayerIndex == IndexOf(s, fromPlayerId)
        newMeld == [type |-> "kong", tiles |-> <<targetTile, targetTile, targetTile, targetTile>>,
                    fromPlayer |-> fromPlayerId]
        claimed == WithPlayer(s.players, playerIndex,
                       [player EXCEPT !.hand = sortHand(newHand),
                                      !.melds = Append(player.melds, newMeld)])
        newPlayers == IF HasPending(s) THEN DropDiscard(claimed, fromPlayerIndex, targetTile) ELSE claimed
        updateData == [players |-> newPlayers,
                       pendingAction |-> <<>>,
                       currentTurn |-> playerId,
                       discardedTiles |-> WithoutId(s.discardedTiles, targetTile)]
        replacementTile == s.wall[1]
    IN  IF targetTile = NoTile THEN NoWrite
        ELSE IF Len(s.wall) > 0
             THEN [players |-> [newPlayers EXCEPT ![playerIndex].hand =
                                    sortHand(Append(newPlayers[playerIndex].hand, replacementTile))],
                   lastDrawnTileId |-> replacementTile,
                   isKongDraw |-> TRUE] @@ updateData
        ELSE [lastDrawnTileId |-> NoTile] @@ updateData

\* tileArg is NoTile when the caller passes no tile
performKongForPlayer(s, playerId, tileArg) ==
    LET targetTile == IF tileArg # NoTile THEN tileArg
                      ELSE IF HasPending(s) THEN PA(s).tile ELSE NoTile
        playerIndex == IndexOf(s, playerId)
        player == s.players[playerIndex]
        newHand == RemoveFromBack(player.hand, targetTile, 3, Len(player.hand))
        fromPlayerId == IF HasPending(s) /\ PA(s).fromPlayer # "" THEN PA(s).fromPlayer ELSE playerId
        fromPlayerIndex == IndexOf(s, fromPlayerId)
        newMeld == [type |-> "kong", tiles |-> <<targetTile, targetTile, targetTile, targetTile>>,
                    fromPlayer |-> fromPlayerId]
        claimed == WithPlayer(s.players, playerIndex,
                       [player EXCEPT !.hand = sortHand(newHand),
                                      !.melds = Append(player.melds, newMeld)])
        newPlayers == IF HasPending(s) THEN DropDiscard(claimed, fromPlayerIndex, targetTile) ELSE claimed
        updateData == [players |-> newPlayers,
                       pendingAction |-> <<>>,
                       currentTurn |-> playerId,
                       discardedTiles |-> WithoutId(s.discardedTiles, targetTile)]
        replacementTile == s.wall[1]
        newWall == Tail(s.wall)
    IN  IF targetTile = NoTile THEN NoWrite
        ELSE IF Len(s.wall) > 0
             THEN [players |-> [newPlayers EXCEPT ![playerIndex].hand =
                                    sortHand(Append(newPlayers[playerIndex].hand, replacementTile))],
                   wall |-> newWall,
                   wallCount |-> Len(newWall),
                   lastDrawnTileId |-> replacementTile,
                   isKongDraw |-> TRUE] @@ updateData
        ELSE [lastDrawnTileId |-> NoTile] @@ updateData

performChiForPlayer(s, playerId, tileArg) ==
    LET targetTile == IF tileArg # NoTile THEN tileArg
                      ELSE IF HasPending(s) THEN PA(s).tile ELSE NoTile
        playerIndex == IndexOf(s, playerId)
        player == s.players[playerIndex]
        chiOptions == findChiTiles(player.hand, targetTile)
        tilesToUse == chiOptions[1]
        newHand == WithoutId(WithoutId(player.hand, tilesToUse[1]), tilesToUse[2])
        fromPlayerId == IF HasPending(s) THEN PA(s).fromPlayer ELSE ""
        fromPlayerIndex == IndexOf(s, fromPlayerId)
        newMeld == [type |-> "chow", tiles |-> sortHand(Append(tilesToUse, targetTile)),
                    fromPlayer |-> fromPlayerId]
        claimed == WithPlayer(s.players, playerIndex,
                       [player EXCEPT !.hand = sortHand(newHand),
                                      !.melds = Append(player.melds, newMeld)])
    IN  IF targetTile = NoTile THEN NoWrite
        ELSE IF Len(chiOptions) = 0 THEN NoWrite
        ELSE [players |-> DropDiscard(claimed, fromPlayerIndex, targetTile),
              pendingAction |-> <<>>,
              currentTurn |-> playerId,
              lastDrawnTileId |-> NoTile,
              discardedTiles |-> WithoutId(s.discardedTiles, targetTile)]

\* skipActionForPlayer that, once all have skipped, hands the turn to the seat
\* after the skipping player instead of the seat after the discarder
skipActionTurnAfterSkipper(s, playerId) ==
    IF ~HasPending(s) THEN NoWrite
    ELSE LET pa == PA(s)
             discarderIndex == IndexOf(s, pa.fromPlayer)
             remainingActions == SelectSeq(pa.actions, LAMBDA a : a.playerId # playerId)
         IN  IF Len(remainingActions) = 0
             THEN IF pa.fromPlayer = playerId
                  THEN [pendingAction |-> <<>>]
                  ELSE [pendingAction |-> <<>>,
                        currentTurn |-> s.players[(IndexOf(s, playerId) + 1) % 4].id]
             ELSE ("pendingAction/targetPlayers" :> <<FirstTargetId(s, remainingActions, discarderIndex)>>)
                  @@ ("pendingAction/actions" :> remainingActions)

skipActionForPlayer(s, playerId) ==
    IF ~HasPending(s) THEN NoWrite
    ELSE LET pa == PA(s)
             discarderIndex == IndexOf(s, pa.fromPlayer)
             remainingActions == SelectSeq(pa.actions, LAMBDA a : a.playerId # playerId)
         IN  IF Len(remainingActions) = 0
             THEN IF pa.fromPlayer = playerId
                  THEN [pendingAction |-> <<>>]
                  ELSE [pendingAction |-> <<>>,
                        currentTurn |-> s.players[(discarderIndex + 1) % 4].id]
             ELSE ("pendingAction/targetPlayers" :> <<FirstTargetId(s, remainingActions, discarderIndex)>>)
                  @@ ("pendingAction/actions" :> remainingActions)

\* startNextRound that keeps lianZhuangCount when the dealer passes
startNextRoundKeepsCount(s, user, tiles) ==
    LET currentDealerId == s.players[s.dealer].id
        dealerWon == s.winner = currentDealerId
        isDraw == s.endReason = "exhaustive_draw"
        isLianZhuang == dealerWon \/ isDraw
        nextDealer == IF isLianZhuang THEN s.dealer ELSE (s.dealer + 1) % 4
        nextRound == IF isLianZhuang THEN s.round ELSE s.round + 1
        nextLianZhuangCount == IF isLianZhuang THEN s.lianZhuangCount + 1 ELSE s.lianZhuangCount
        dealt == dealTiles(tiles)
        newPlayers == [index \in Seats |->
                          [id |-> s.players[index].id,
                           wind |-> (index - nextDealer + 4) % 4,
                           hand |-> dealt.hands[index],
                           melds |-> <<>>,
                           discarded |-> <<>>,
                           score |-> s.players[index].score]]
    IN  IF s.gameStatus # "ended" THEN NoWrite
        ELSE IF user # Host THEN NoWrite
        ELSE IF nextRound > s.totalRounds THEN NoWrite
        ELSE [players |-> newPlayers,
              wall |-> dealt.wall,
              wallCount |-> Len(dealt.wall),
              currentTurn |-> newPlayers[nextDealer].id,
              prevailingWind |-> ((nextRound - 1) \div 4) % 4,
              dealer |-> nextDealer,
              gameStatus |-> "playing",
              round |-> nextRound,
              totalRounds |-> s.totalRounds,
              lianZhuangCount |-> nextLianZhuangCount,
              endReason |-> "",
              winner |-> "",
              winningHand |-> <<>>,
              scoringResult |-> <<>>,
              lastDiscard |-> NoTile,
              pendingAction |-> <<>>,
              isZimo |-> FALSE,
              isLastTile |-> FALSE,
              isKongDraw |-> FALSE,
              lastDrawnTileId |-> NoTile,
              discardedTiles |-> <<>>]

\* startNextRound in the client of `user` with the deck shuffleTiles returns;
\* set() replaces the whole record, so the fields it does not list are absent
startNextRound(s, user, tiles) ==
    LET currentDealerId == s.players[s.dealer].id
        dealerWon == s.winner = currentDealerId
        isDraw == s.endReason = "exhaustive_draw"
        isLianZhuang == dealerWon \/ isDraw
        nextDealer == IF isLianZhuang THEN s.dealer ELSE (s.dealer + 1) % 4
        nextRound == IF isLianZhuang THEN s.round ELSE s.round + 1
        nextLianZhuangCount == IF isLianZhuang THEN s.lianZhuangCount + 1 ELSE 0
        dealt == dealTiles(tiles)
        newPlayers == [index \in Seats |->
                          [id |-> s.players[index].id,
                           wind |-> (index - nextDealer + 4) % 4,
                           hand |-> dealt.hands[index],
                           melds |-> <<>>,
                           discarded |-> <<>>,
                           score |-> s.players[index].score]]
    IN  IF s.gameStatus # "ended" THEN NoWrite
        ELSE IF user # Host THEN NoWrite
        ELSE IF nextRound > s.totalRounds THEN NoWrite
        ELSE [players |-> newPlayers,
              wall |-> dealt.wall,
              wallCount |-> Len(dealt.wall),
              currentTurn |-> newPlayers[nextDealer].id,
              prevailingWind |-> ((nextRound - 1) \div 4) % 4,
              dealer |-> nextDealer,
              gameStatus |-> "playing",
              round |-> nextRound,
              totalRounds |-> s.totalRounds,
              lianZhuangCount |-> nextLianZhuangCount,
              endReason |-> "",
              winner |-> "",
              winningHand |-> <<>>,
              scoringResult |-> <<>>,
              lastDiscard |-> NoTile,
              pendingAction |-> <<>>,
              isZimo |-> FALSE,
              isLastTile |-> FALSE,
              isKongDraw |-> FALSE,
              lastDrawnTileId |-> NoTile,
              discardedTiles |-> <<>>]

\* ------------------------------------------------------------------------
\* Mahjong: the host's bot effects, as the sets of writes they can make
\* ------------------------------------------------------------------------

WallAfterDeal == DeckSize - 4 * HandSize - 1

\* number of draws from the wall during which a discarder may also pick the
\* first or the last tile of the hand instead of the tile just drawn
FreeDiscardTurns == 0

TilesIn(seq) == {seq[i] : i \in 1 .. Len(seq)}

\* the tiles a discarder picks from: the tile just drawn; the first or the last
\* tile of the hand when nothing was drawn (after the deal or a claim) or
\* during the first draws
DiscardChoices(hand, drawn, wallLen) ==
    (TilesIn(hand) \cap {drawn})
    \cup (IF Len(hand) > 0 /\ (drawn \notin TilesIn(hand) \/ WallAfterDeal - wallLen <= FreeDiscardTurns)
         THEN {hand[1], hand[Len(hand)]}
         ELSE {})

\* the bot's own draw-and-discard write for a chosen tile
BotDiscardWrite(s, pi, drawnTile, tileToDiscard) ==
    LET botPlayer == s.players[pi]
        newWall == SubSeq(s.wall, 1, Len(s.wall) - 1)
        newHand == sortHand(Append(botPlayer.hand, drawnTile))
        discardHand == WithoutId(newHand, tileToDiscard)
        newPlayers == WithPlayer(s.players, pi,
                          [botPlayer EXCEPT !.hand = sortHand(discardHand),
                                            !.discarded = Append(botPlayer.discarded, tileToDiscard)])
        pendingActions == ClaimActions(s, pi, tileToDiscard)
        updateData == [wall |-> newWall,
                       wallCount |-> Len(newWall),
                       players |-> newPlayers,
                       lastDiscard |-> tileToDiscard,
                       discardedTiles |-> Append(s.discardedTiles, tileToDiscard)]
    IN  IF Len(pendingActions) > 0
        THEN updateData @@
             [pendingAction |-> << [tile |-> tileToDiscard, fromPlayer |-> s.currentTurn,
                                    targetPlayers |-> [k \in 1 .. Len(pendingActions) |->
                                                          pendingActions[k].playerId],
                                    actions |-> pendingActions] >>]
        ELSE updateData @@
             [currentTurn |-> s.players[(pi + 1) % 4].id,
              pendingAction |-> <<>>]

\* Effect 2, bot branch: what the timer callback can do from state s; each
\* entry is the step taken and its write
BotTurnWrites(s) ==
    LET currentPlayerId == s.currentTurn
        pi == IndexOf(s, currentPlayerId)
        botPlayer == s.players[pi]
        drawnTile == s.wall[Len(s.wall)]
        newWall == SubSeq(s.wall, 1, Len(s.wall) - 1)
        newHand == sortHand(Append(botPlayer.hand, drawnTile))
    IN  IF s.gameStatus # "playing" \/ HasPending(s) \/ pi = -1 THEN {<<"botIdle", NoWrite>>}
        ELSE IF getPlayerTileState(botPlayer) = "need_draw"
             THEN IF Len(s.wall) = 0
                  THEN {<<"botExhaust", [gameStatus |-> "ended", endReason |-> "exhaustive_draw"]>>}
                  ELSE IF checkHu(newHand)
                  THEN {<<"botZimo",
                          [wall |-> newWall, wallCount |-> Len(newWall),
                           players |-> WithPlayer(s.players, pi, [botPlayer EXCEPT !.hand = newHand]),
                           gameStatus |-> "ended", endReason |-> "zimo", winner |-> currentPlayerId]>>}
                  ELSE {<<"botDrawDiscard", BotDiscardWrite(s, pi, drawnTile, t)>> :
                            t \in DiscardChoices(newHand, drawnTile, Len(newWall))}
             ELSE IF Len(botPlayer.hand) > 0
                  THEN {<<"discard", discardMahjongTile(s, Host, t)>> :
                            t \in DiscardChoices(botPlayer.hand, s.lastDrawnTileId, Len(s.wall))}
                  ELSE {<<"botIdle", NoWrite>>}

\* Effect 1: what the bot that is the first target does; each entry is the
\* handler it calls and that handler's write
BotRespondWrites(s) ==
    LET updatedPA == PA(s)
        currentTargetId == updatedPA.targetPlayers[1]
        mine == SelectSeq(updatedPA.actions, LAMBDA a : a.playerId = currentTargetId)
        botAction == mine[1]
        skip == <<"skip", skipActionForPlayer(s, currentTargetId)>>
    IN  IF Len(mine) = 0 THEN {skip}
        ELSE IF botAction.canHu THEN {<<"hu", performHuForPlayer(s, currentTargetId)>>}
        ELSE {<<"pong", performPongForPlayer(s, currentTargetId)>> : x \in {1} \cap {IF botAction.canPong THEN 1 ELSE 0}}
             \cup {<<"kong", performKongForPlayer(s, currentTargetId, updatedPA.tile)>> : x \in {1} \cap {IF botAction.canKong THEN 1 ELSE 0}}
             \cup {<<"chi", performChiForPlayer(s, currentTargetId, updatedPA.tile)>> : x \in {1} \cap {IF botAction.canChi THEN 1 ELSE 0}}
             \cup {skip}

\* ------------------------------------------------------------------------
\* Mahjong: one round, every client seeing each write before anyone acts again
\* ------------------------------------------------------------------------

\* shuffleTiles can return any permutation; the rounds explored start from these
RoundDeck ==
    << 83, 87, 95, 99, 103, 117, 118, 119, 69, 70, 71, 3, 47, 59, 127, 131, 79,
       102, 46, 58, 98, 111, 94, 2, 86, 67, 82, 78, 101, 63, 97, 93, 85, 55,
       81, 77, 100, 51, 96, 92, 84, 43, 11, 80, 76, 39, 7, 27, 19, 66, 10,
       23, 15, 62, 6, 26, 18, 54, 35, 22, 14, 50, 9, 25, 17, 42, 5, 21,
       13, 38, 34, 116, 135, 130, 126, 115, 134, 129, 125, 114, 133, 128, 124, 113, 132,
       65, 64, 112, 123, 61, 60, 107, 122, 57, 56, 106, 121, 53, 52, 105, 120, 49,
       48, 104, 110, 45, 44, 91, 109, 41, 40, 90, 108, 37, 36, 89, 68, 24, 33,
       88, 31, 20, 32, 75, 30, 16, 12, 74, 29, 1, 8, 73, 28, 0, 4, 72 >>

Decks == <<RoundDeck>>

\* the record of a round dealt from RoundDeck with the first dice result
FirstDeal == startGame(RoundDeck, 0)

MJInit ==
    /\ \E k \in 1 .. Len(Decks), dealerIndex \in Seats : game = startGame(Decks[k], dealerIndex)
    /\ last = [op |-> "startGame", who |-> "", wrote |-> TRUE]
    /\ huTiles = <<>>
    /\ huResult = "unset"
    /\ stale = NoWrite
    /\ claims = <<>>
    /\ ScoreIdle
    /\ ChessIdle
    /\ BigIdle

\* the steps of a client that calls an exported handler of the hook directly,
\* without the board's buttons in between
CallOps == {"call:draw", "call:discard", "call:hu", "call:pong", "call:kong", "call:chi",
            "call:skip", "call:nextRound"}

\* a handler ran for `who` and wrote u (nothing when u is NoWrite); a round is
\* followed up to its first direct call
Step(op, who, u) ==
    /\ last.op \notin CallOps
    /\ game' = Merge(game, u)
    /\ last' = [op |-> op, who |-> who, wrote |-> (DOMAIN u # {})]
    /\ UNCHANGED <<huVars, raceVars, scoreVars, chessVars, bigVars>>

Self(s, u) == s.players[IndexOf(s, u)]

\* App: once the round has ended with a scoringResult the full-screen
\* MahjongResult covers the board
BoardOpen(s) == ~(s.gameStatus = "ended" /\ s.scoringResult # <<>>)

\* Effect 2, human branch: auto-draw
HumanDraw(u) ==
    /\ game.gameStatus = "playing"
    /\ ~HasPending(game)
    /\ game.currentTurn = u
    /\ getPlayerTileState(Self(game, u)) = "need_draw"
    /\ Step("draw", u, drawMahjongTile(game, u))

\* MahjongBoard: a tile of the own hand is clickable when canDiscard
canDiscard(s, u) ==
    /\ s.currentTurn = u
    /\ EffectiveSize(Self(s, u)) >= 17
    /\ ~HasPending(s)

HumanDiscard(u) ==
    /\ BoardOpen(game)
    /\ canDiscard(game, u)
    /\ \E t \in DiscardChoices(Self(game, u).hand, game.lastDrawnTileId, Len(game.wall)) :
           Step("discard", u, discardMahjongTile(game, u, t))

\* MahjongBoard: the claim buttons of user u
MyActions(s, u) == SelectSeq(PA(s).actions, LAMBDA a : a.playerId = u)

canAct(s, u) ==
    /\ HasPending(s)
    /\ \E i \in 1 .. Len(PA(s).targetPlayers) : PA(s).targetPlayers[i] = u
    /\ Len(MyActions(s, u)) > 0

HumanHu(u) ==
    /\ BoardOpen(game)
    /\ canAct(game, u)
    /\ MyActions(game, u)[1].canHu
    /\ Step("hu", u, performHuForPlayer(game, u))

HumanPong(u) ==
    /\ BoardOpen(game)
    /\ canAct(game, u)
    /\ MyActions(game, u)[1].canPong
    /\ Step("pong", u, performPongForPlayer(game, u))

HumanKong(u) ==
    /\ BoardOpen(game)
    /\ canAct(game, u)
    /\ MyActions(game, u)[1].canKong
    /\ Step("kong", u, performKongForPlayer(game, u, NoTile))

HumanChi(u) ==
    /\ BoardOpen(game)
    /\ canAct(game, u)
    /\ MyActions(game, u)[1].canChi
    /\ Step("chi", u, performChiForPlayer(game, u, NoTile))

HumanSkip(u) ==
    /\ BoardOpen(game)
    /\ canAct(game, u)
    /\ Step("skip", u, skipActionForPlayer(game, u))

\* Effect 1 in the host's client
BotRespond ==
    /\ game.gameStatus = "playing"
    /\ HasPending(game)
    /\ isBot(PA(game).targetPlayers[1])
    /\ \E w \in BotRespondWrites(game) : Step(w[1], PA(game).targetPlayers[1], w[2])

\* Effect 2 in the host's client
BotTurn ==
    /\ game.gameStatus = "playing"
    /\ ~HasPending(game)
    /\ isBot(game.currentTurn)
    /\ \E w \in BotTurnWrites(game) : Step(w[1], game.currentTurn, w[2])

MJNext ==
    \/ \E u \in Humans : HumanDraw(u)
    \/ \E u \in Humans : HumanDiscard(u)
    \/ \E u \in Humans : HumanHu(u)
    \/ \E u \in Humans : HumanPong(u)
    \/ \E u \in Humans : HumanKong(u)
    \/ \E u \in Humans : HumanChi(u)
    \/ \E u \in Humans : HumanSkip(u)
    \/ BotRespond
    \/ BotTurn

SpecMJ == MJInit /\ [][MJNext]_vars

\* ------------------------------------------------------------------------
\* Mahjong: one round in which a client also calls the hook's exported
\* handlers directly, whatever its board shows
\* ------------------------------------------------------------------------

\* the exported handlers act for the logged-in user (user && ...).
\* tile ids a client can pass: the first tile of its own hand and the first
\* tile of the hand of the player on turn
CallTiles(s, u) ==
    LET own == Self(s, u).hand
        cur == s.players[IndexOf(s, s.currentTurn)].hand
    IN  (IF Len(own) > 0 THEN {own[1]} ELSE {}) \cup (IF Len(cur) > 0 THEN {cur[1]} ELSE {})

CallDraw(u) ==
    /\ u \in Humans
    /\ Step("call:draw", u, drawMahjongTile(game, u))

CallDiscard(u) ==
    /\ u \in Humans
    /\ \E t \in CallTiles(game, u) : Step("call:discard", u, discardMahjongTile(game, u, t))

CallHu(u) ==
    /\ u \in Humans
    /\ Step("call:hu", u, performHuForPlayer(game, u))

CallPong(u) ==
    /\ u \in Humans
    /\ Step("call:pong", u, performPongForPlayer(game, u))

CallKong(u) ==
    /\ u \in Humans
    /\ Step("call:kong", u, performKongForPlayer(game, u, NoTile))

CallChi(u) ==
    /\ u \in Humans
    /\ Step("call:chi", u, performChiForPlayer(game, u, NoTile))

CallSkip(u) ==
    /\ u \in Humans
    /\ Step("call:skip", u, skipActionForPlayer(game, u))

CallStartNextRound(u) ==
    /\ u \in Humans
    /\ \E k \in 1 .. Len(Decks) : Step("call:nextRound", u, startNextRound(game, u, Decks[k]))

ApiNext ==
    \/ \E u \in Humans : HumanDraw(u)
    \/ \E u \in Humans : HumanDiscard(u)
    \/ \E u \in Humans : HumanHu(u)
    \/ \E u \in Humans : HumanPong(u)
    \/ \E u \in Humans : HumanKong(u)
    \/ \E u \in Humans : HumanChi(u)
    \/ \E u \in Humans : HumanSkip(u)
    \/ BotRespond
    \/ BotTurn
    \/ \E u \in Humans : CallDraw(u)
    \/ \E u \in Humans : CallDiscard(u)
    \/ \E u \in Humans : CallHu(u)
    \/ \E u \in Humans : CallPong(u)
    \/ \E u \in Humans : CallKong(u)
    \/ \E u \in Humans : CallChi(u)
    \/ \E u \in Humans : CallSkip(u)
    \/ \E u \in Humans : CallStartNextRound(u)

SpecApi == MJInit /\ [][ApiNext]_vars

\* ------------------------------------------------------------------------
\* Mahjong: the opening of a round with every client acting on the record it
\* received last; a write reaches the database at once and the other clients
\* later
\* ------------------------------------------------------------------------

\* a deal in which the dealer's first discard and the first tile drawn can
\* each be claimed
RaceDeck ==
    << 11, 7, 59, 55, 51, 47, 43, 39, 27, 23, 19, 10, 6, 71, 67, 63, 58,
       54, 50, 46, 42, 38, 35, 31, 26, 22, 18, 9, 5, 111, 70, 66, 62, 57,
       53, 49, 45, 41, 37, 34, 30, 25, 21, 17, 15, 8, 4, 87, 83, 79, 103,
       95, 86, 82, 78, 107, 102, 99, 94, 91, 85, 81, 77, 75, 135, 134, 127, 131,
       119, 115, 14, 132, 126, 133, 125, 118, 123, 130, 124, 117, 98, 129, 122, 116, 97,
       128, 121, 114, 96, 84, 120, 113, 65, 80, 110, 112, 64, 76, 109, 106, 61, 56,
       108, 105, 60, 52, 101, 104, 29, 48, 100, 90, 28, 44, 93, 89, 13, 40, 92,
       88, 12, 36, 69, 74, 3, 24, 68, 73, 2, 20, 33, 72, 1, 16, 32, 0 >>

\* number of tiles taken from the wall up to which the round is followed
RaceDraws == 1

\* mahjongState in client c
Seen(c) == IF c \in DOMAIN stale THEN stale[c] ELSE game

\* the round starts from the record every client has received
RaceInit ==
    /\ \E dealerIndex \in Seats : game = startGame(RaceDeck, dealerIndex)
    /\ last = [op |-> "startGame", who |-> "", wrote |-> TRUE]
    /\ huTiles = <<>>
    /\ huResult = "unset"
    /\ stale = NoWrite
    /\ claims = <<>>
    /\ ScoreIdle
    /\ ChessIdle
    /\ BigIdle

\* a handler ran in `client` for `who` on the record that client holds and
\* wrote u; the client sees its own write, the others keep what they had
RaceStep(op, who, client, u) ==
    LET s == Seen(client)
        wrote == DOMAIN u # {}
        others == Humans \ {client}
    IN  /\ WallAfterDeal - Len(game.wall) <= RaceDraws
        /\ game' = Merge(game, u)
        /\ last' = [op |-> op, who |-> who, wrote |-> wrote]
        /\ stale' = IF wrote THEN [c \in others |-> Seen(c)] ELSE stale
        /\ claims' = IF /\ wrote
                        /\ op \in {"hu", "pong", "kong", "chi"}
                        /\ HasPending(s)
                        /\ PA(s).fromPlayer # who
                     THEN Append(claims, PA(s).tile)
                     ELSE claims
        /\ UNCHANGED <<huVars, scoreVars, chessVars, bigVars>>

\* onValue: the client receives the stored record
Deliver(c) ==
    /\ c \in DOMAIN stale
    /\ stale' = [d \in DOMAIN stale \ {c} |-> stale[d]]
    /\ last' = [op |-> "onValue", who |-> c, wrote |-> FALSE]
    /\ UNCHANGED <<game, claims, huVars, scoreVars, chessVars, bigVars>>

RaceHumanDraw(c) ==
    LET s == Seen(c)
    IN  /\ s.gameStatus = "playing"
        /\ ~HasPending(s)
        /\ s.currentTurn = c
        /\ getPlayerTileState(Self(s, c)) = "need_draw"
        /\ RaceStep("draw", c, c, drawMahjongTile(s, c))

RaceHumanDiscard(c) ==
    LET s == Seen(c)
    IN  /\ BoardOpen(s)
        /\ canDiscard(s, c)
        /\ \E t \in DiscardChoices(Self(s, c).hand, s.lastDrawnTileId, Len(s.wall)) :
               RaceStep("discard", c, c, discardMahjongTile(s, c, t))

RaceHumanHu(c) ==
    LET s == Seen(c)
    IN  /\ BoardOpen(s)
        /\ canAct(s, c)
        /\ MyActions(s, c)[1].canHu
        /\ RaceStep("hu", c, c, performHuForPlayer(s, c))

RaceHumanPong(c) ==
    LET s == Seen(c)
    IN  /\ BoardOpen(s)
        /\ canAct(s, c)
        /\ MyActions(s, c)[1].canPong
        /\ RaceStep("pong", c, c, performPongForPlayer(s, c))

RaceHumanKong(c) ==
    LET s == Seen(c)
    IN  /\ BoardOpen(s)
        /\ canAct(s, c)
        /\ MyActions(s, c)[1].canKong
        /\ RaceStep("kong", c, c, performKongForPlayer(s, c, NoTile))

RaceHumanChi(c) ==
    LET s == Seen(c)
    IN  /\ BoardOpen(s)
        /\ canAct(s, c)
        /\ MyActions(s, c)[1].canChi
        /\ RaceStep("chi", c, c, performChiForPlayer(s, c, NoTile))

RaceHumanSkip(c) ==
    LET s == Seen(c)
    IN  /\ BoardOpen(s)
        /\ canAct(s, c)
        /\ RaceStep("skip", c, c, skipActionForPlayer(s, c))

\* Effect 1 in the host's client
RaceBotRespond ==
    LET s == Seen(Host)
    IN  /\ s.gameStatus = "playing"
        /\ HasPending(s)
        /\ isBot(PA(s).targetPlayers[1])
        /\ \E w \in BotRespondWrites(s) : RaceStep(w[1], PA(s).targetPlayers[1], Host, w[2])

\* Effect 2 in the host's client
RaceBotTurn ==
    LET s == Seen(Host)
    IN  /\ s.gameStatus = "playing"
        /\ ~HasPending(s)
        /\ isBot(s.currentTurn)
        /\ \E w \in BotTurnWrites(s) : RaceStep(w[1], s.currentTurn, Host, w[2])

RaceNext ==
    \/ \E c \in Humans : Deliver(c)
    \/ \E c \in Humans : RaceHumanDraw(c)
    \/ \E c \in Humans : RaceHumanDiscard(c)
    \/ \E c \in Humans : RaceHumanHu(c)
    \/ \E c \in Humans : RaceHumanPong(c)
    \/ \E c \in Humans : RaceHumanKong(c)
    \/ \E c \in Humans : RaceHumanChi(c)
    \/ \E c \in Humans : RaceHumanSkip(c)
    \/ RaceBotRespond
    \/ RaceBotTurn

SpecRace == RaceInit /\ [][RaceNext]_vars

\* ------------------------------------------------------------------------
\* Properties of one round
\* ------------------------------------------------------------------------

CurrentPlayer(s) == s.players[IndexOf(s, s.currentTurn)]

\* the steps that discard a tile: discardMahjongTile and the bot's draw-and-discard
DiscardOps == {"discard", "botDrawDiscard"}

\* the steps that are a normal draw from the wall, or the attempt of one
DrawOps == {"draw", "botDrawDiscard", "botZimo", "botExhaust"}

ClaimOps == {"pong", "kong", "chi"}

\* a discard has just been written and claims on it are pending
DiscardJustClaimed == last.op \in DiscardOps /\ last.wrote /\ HasPending(game)

\* the seats eligible for the pending tile, scored from the hands
EligibleNow == ClaimActions(game, IndexOf(game, PA(game).fromPlayer), PA(game).tile)

ScoreOfSeat(actions, id) ==
    LET mine == SelectSeq(actions, LAMBDA a : a.playerId = id)
    IN  IF Len(mine) = 0 THEN 0
        ELSE IF mine[1].canHu THEN 3
        ELSE IF mine[1].canPong \/ mine[1].canKong THEN 2
        ELSE IF mine[1].canChi THEN 1
        ELSE 0

MaxScoreOf(actions) ==
    CHOOSE m \in 0 .. 3 :
        /\ \A k \in 1 .. Len(actions) : ScoreOfSeat(actions, actions[k].playerId) <= m
        /\ m = 0 \/ \E k \in 1 .. Len(actions) : ScoreOfSeat(actions, actions[k].playerId) = m

\* (seatIndex - discarderIndex) mod 4
Downstream(s, id, fromId) == (IndexOf(s, id) - IndexOf(s, fromId) + 4) % 4

HuSeats(actions) == {actions[k].playerId : k \in {j \in 1 .. Len(actions) : actions[j].canHu}}

\* id has the highest score among the actions and, when that is Hu, no other
\* Hu seat sits nearer downstream of the discarder
IsTopClaimant(s, actions, id, fromId) ==
    /\ ScoreOfSeat(actions, id) = MaxScoreOf(actions)
    /\ ScoreOfSeat(actions, id) > 0
    /\ ScoreOfSeat(actions, id) = 3 =>
          \A other \in HuSeats(actions) : Downstream(s, id, fromId) <= Downstream(s, other, fromId)

\* C1: after every discard, by a human through discardMahjongTile or by a bot
\* in the bot-turn effect, pendingAction.targetPlayers holds only a seat whose
\* claim score (Hu 3, Pong/Kong 2, Chi 1) is the maximum among the seats
\* eligible for the tile.
C1_TargetsOnlyMaxScore ==
    DiscardJustClaimed =>
        \A k \in 1 .. Len(PA(game).targetPlayers) :
            ScoreOfSeat(EligibleNow, PA(game).targetPlayers[k]) = MaxScoreOf(EligibleNow)

\* C2: when two or more seats can Hu on the discarded tile, the seat offered
\* the claim first is the Hu seat at the smallest downstream distance from the
\* discarder.
C2_FirstOfferedIsNearestHu ==
    (DiscardJustClaimed /\ Cardinality(HuSeats(EligibleNow)) >= 2) =>
        LET first == PA(game).targetPlayers[1]
        IN  /\ first \in HuSeats(EligibleNow)
            /\ \A other \in HuSeats(EligibleNow) :
                   Downstream(game, first, PA(game).fromPlayer)
                       <= Downstream(game, other, PA(game).fromPlayer)

\* a target of a pending claim on a discard (not the self-drawn win offer) skips
SkipOfDiscardClaim ==
    /\ last'.op = "skip"
    /\ HasPending(game)
    /\ PA(game).fromPlayer # last'.who
    /\ \E k \in 1 .. Len(PA(game).targetPlayers) : PA(game).targetPlayers[k] = last'.who

RemainingAfterSkip == SelectSeq(PA(game).actions, LAMBDA a : a.playerId # last'.who)

ClaimKind(op) ==
    IF op \in {"hu", "call:hu"} THEN "hu"
    ELSE IF op \in {"pong", "call:pong"} THEN "pong"
    ELSE IF op \in {"kong", "call:kong"} THEN "kong"
    ELSE IF op \in {"chi", "call:chi"} THEN "chi"
    ELSE ""

\* a claim is pending in s, id is one of its targetPlayers and its actions
\* record the flag of that kind for id
MayClaim(s, id, kind) ==
    /\ HasPending(s)
    /\ \E k \in 1 .. Len(PA(s).targetPlayers) : PA(s).targetPlayers[k] = id
    /\ \E k \in 1 .. Len(PA(s).actions) :
           /\ PA(s).actions[k].playerId = id
           /\ \/ kind = "hu" /\ PA(s).actions[k].canHu
              \/ kind = "pong" /\ PA(s).actions[k].canPong
              \/ kind = "kong" /\ PA(s).actions[k].canKong
              \/ kind = "chi" /\ PA(s).actions[k].canChi

\* C4: a hu, pong, kong or chi attempt by a player for whom no claim is
\* pending, who is not among pendingAction.targetPlayers, or whose entry in
\* pendingAction.actions lacks the flag of that claim, leaves the game record
\* unchanged.
C4_ClaimNeedsEligibility ==
    [][(ClaimKind(last'.op) # "" /\ ~MayClaim(game, last'.who, ClaimKind(last'.op)))
          => game' = game]_vars

\* C5 (Mahjong): a draw or a discard submitted by a user who is not the
\* currentTurn player leaves the game record unchanged, whether the player on
\* turn is a human or a bot.
C5_OnlyCurrentTurnDrawsOrDiscards ==
    [][(last'.op \in {"call:draw", "call:discard", "draw", "discard"}
           /\ ~isBot(last'.who) /\ last'.who # game.currentTurn)
          => game' = game]_vars

\* C6: for each discarded tile at most one hu, pong, kong or chi takes effect,
\* however the clients' and the host's handlers interleave when each reads the
\* record it received last and then writes.
C6_OneClaimPerDiscard ==
    \A i, j \in 1 .. Len(claims) : i # j => claims[i] # claims[j]

\* the record is the one a round starts from: the dealer holds 17 tiles, every
\* other seat 16, nothing is melded or discarded, the wall holds the other 71
\* tiles and the dealer is on turn
IsRoundStart(s) ==
    /\ \A i \in Seats :
           /\ Len(s.players[i].hand) = (IF i = s.dealer THEN 17 ELSE 16)
           /\ s.players[i].melds = <<>>
           /\ s.players[i].discarded = <<>>
    /\ Len(s.wall) = 71
    /\ TilesIn(s.wall) \cup UNION {TilesIn(s.players[i].hand) : i \in Seats} = Tiles
    /\ s.currentTurn = s.players[s.dealer].id

\* C11: every round starts, after startGame and after each startNextRound,
\* with 17 tiles in the dealer's hand, 16 in each other hand, the remaining
\* 71 tiles in the wall and the dealer on turn.
C11_RoundStartsWithDealerSeventeen ==
    ((last.op = "startGame" \/ (last.op = "call:nextRound" /\ last.wrote)) => IsRoundStart(game))

\* the step ends a round with a winner
RoundWon == game.gameStatus = "playing" /\ game'.gameStatus = "ended" /\ game'.winner # ""

\* the winning tile was drawn by the winner: a bot's self-drawn win, or a win
\* declared on the pending claim that the winner's own draw opened
SelfDrawnWin ==
    \/ last'.op = "botZimo"
    \/ HasPending(game) /\ PA(game).fromPlayer = game'.winner

\* the player whose discard is won: the claim's fromPlayer, or with no claim
\* pending the player who discarded last (the one before the current turn)
DiscarderOf(s) ==
    IF HasPending(s) THEN PA(s).fromPlayer
    ELSE s.players[(IndexOf(s, s.currentTurn) + 3) % 4].id

\* C12: when a round is won the scores change by exactly this: self-drawn, the
\* winner gains 3 x totalPoints and each other seat loses totalPoints; from a
\* discard, the winner gains totalPoints, the discarder loses totalPoints and
\* the other two seats keep their scores.
C12_WinTransfersPoints ==
    [][RoundWon =>
          /\ game'.scoringResult # <<>>
          /\ LET tp == game'.scoringResult[1].totalPoints
                 w == game'.winner
                 d == DiscarderOf(game)
             IN  \A i \in Seats :
                     game'.players[i].score - game.players[i].score =
                         (IF SelfDrawnWin
                          THEN (IF game.players[i].id = w THEN 3 * tp ELSE 0 - tp)
                          ELSE (IF game.players[i].id = w THEN tp
                                ELSE IF game.players[i].id = d THEN 0 - tp
                                ELSE 0))]_vars

\* the kong-replacement item is among the items of the round's scoringResult
HasKongFan(s) ==
    /\ s.scoringResult # <<>>
    /\ \E i \in 1 .. Len(s.scoringResult[1].items) :
          s.scoringResult[1].items[i].name = "gangShangKaiHua"

\* the winner's previous step was their own kong and it drew a replacement
WonOnOwnKongReplacement ==
    /\ last.op \in {"kong", "call:kong"}
    /\ last.wrote
    /\ last.who = game'.winner
    /\ game.lastDrawnTileId # NoTile
    /\ \E i \in 1 .. Len(game'.winningHand) : game'.winningHand[i] = game.lastDrawnTileId

\* C28: the kong-replacement fan is awarded if and only if the winning tile
\* is the replacement tile the winner drew for their own immediately
\* preceding kong
C28_KongFanIffWonOnReplacement ==
    [][(RoundWon /\ game'.scoringResult # <<>>) =>
          (HasKongFan(game') <=> WonOnOwnKongReplacement)]_vars

\* a round won with the kong-replacement fan in its items
C28_KongFanAwarded == game.gameStatus = "ended" /\ game.winner # "" /\ HasKongFan(game)

\* the hands, melds and scores of the four seats
SeatHoldings(s) ==
    [i \in DOMAIN s.players |->
        <<s.players[i].hand, s.players[i].melds, s.players[i].score>>]

\* C35: once a round has gameStatus "ended", no draw, discard, skip, pong,
\* kong, chi or hu changes any hand, meld, score or the winner until
\* startNextRound is called
C35_EndedRoundIsFrozen ==
    [][(game.gameStatus = "ended" /\ last'.op \notin {"call:nextRound", "nextRound"}) =>
          /\ SeatHoldings(game') = SeatHoldings(game)
          /\ game'.winner = game.winner]_vars

\* the step draws the next tile of the wall for the player on turn and that
\* tile completes a winning hand
DrawsWinningTile ==
    /\ last'.op \in {"draw", "botDrawDiscard", "botZimo"}
    /\ last'.wrote
    /\ Len(game.wall) > 0
    /\ game'.wall = SubSeq(game.wall, 1, Len(game.wall) - 1)
    /\ checkHu(sortHand(Append(CurrentPlayer(game).hand, game.wall[Len(game.wall)])))

\* C14: whenever a player, human or bot, draws a tile that completes a winning
\* hand, the win is offered as a pending claim whose tile is the drawn tile,
\* whose fromPlayer is the drawer and whose targetPlayers is the drawer alone.
C14_SelfDrawnWinIsOffered ==
    [][DrawsWinningTile =>
          /\ HasPending(game')
          /\ PA(game').tile = game.wall[Len(game.wall)]
          /\ PA(game').fromPlayer = game.currentTurn
          /\ PA(game').targetPlayers = <<game.currentTurn>>]_vars

\* C8: no normal draw, by a human or by a bot, removes a tile from the wall
\* when 16 or fewer tiles remain; the attempt ends the round instead, with
\* gameStatus "ended", endReason "exhaustive_draw" and no winner.
C8_NoDrawFromDeadWall ==
    [][(last'.op \in DrawOps /\ Len(game.wall) <= DeadWall) =>
          /\ game'.wall = game.wall
          /\ game'.gameStatus = "ended"
          /\ game'.endReason = "exhaustive_draw"
          /\ game'.winner = ""]_vars

RECURSIVE SumOver(_, _)
SumOver(f, n) == IF n < 0 THEN 0 ELSE f[n] + SumOver(f, n - 1)

MeldTiles(player) ==
    LET sizes == [k \in 0 .. Len(player.melds) |-> IF k = 0 THEN 0 ELSE Len(player.melds[k].tiles)]
    IN  SumOver(sizes, Len(player.melds))

\* wall + hands + melds + discard pond
TileTotal(s) ==
    Len(s.wall)
    + SumOver([i \in Seats |-> Len(s.players[i].hand)], 3)
    + SumOver([i \in Seats |-> MeldTiles(s.players[i])], 3)
    + Len(s.discardedTiles)

\* C10: after any sequence of draws, discards, pongs, kongs, chis and skips in
\* a round, the tiles of the wall, the hands, the melds and the discard pond
\* number 136.
C10_TilesConserved == TileTotal(game) = DeckSize

\* a kong and a pong or chow have been melded and tiles were discarded since
C10_Witness_AfterKongAndOtherMeld ==
    /\ \E i \in Seats : \E k \in 1 .. Len(game.players[i].melds) :
           game.players[i].melds[k].type = "kong"
    /\ \E i \in Seats : \E k \in 1 .. Len(game.players[i].melds) :
           game.players[i].melds[k].type \in {"pong", "chow"}
    /\ Len(game.discardedTiles) >= 3
    /\ Len(game.wall) < WallAfterDeal - 3

\* ------------------------------------------------------------------------
\* checkHu as a pure function of bounded inputs
\* ------------------------------------------------------------------------

CopiesPerFace == 4
MaxHuLen == 8

\* the faces the inputs are drawn from: a stretch of one number suit, one face
\* of another number suit, and three winds
HuFaces == << <<"wan", 1>>, <<"wan", 2>>, <<"wan", 3>>, <<"wan", 4>>,
              <<"tong", 3>>, <<"wind", 1>>, <<"wind", 2>>, <<"wind", 3>> >>

RECURSIVE SumTo(_, _)
SumTo(c, n) == IF n = 0 THEN 0 ELSE c[n] + SumTo(c, n - 1)

HuCounts ==
    {c \in [1 .. Len(HuFaces) -> 0 .. CopiesPerFace] :
        SumTo(c, Len(HuFaces)) >= 1 /\ SumTo(c, Len(HuFaces)) <= MaxHuLen}

\* the tiles of a count vector, ascending
RECURSIVE TilesOfCounts(_, _)
TilesOfCounts(c, n) ==
    IF n = 0 THEN <<>>
    ELSE TilesOfCounts(c, n - 1) \o
         [k \in 1 .. c[n] |-> TileOf(HuFaces[n][1], HuFaces[n][2], k - 1)]

Reverse(seq) == [i \in 1 .. Len(seq) |-> seq[Len(seq) + 1 - i]]

\* odd positions first, then even positions
Interleave(seq) ==
    LET n == Len(seq)
        odd == (n + 1) \div 2
    IN  [i \in 1 .. n |-> IF i <= odd THEN seq[2 * i - 1] ELSE seq[2 * (i - odd)]]

HuOrders == {"ascending", "descending", "interleaved"}

Arrange(order, seq) ==
    CASE order = "ascending" -> seq
      [] order = "descending" -> Reverse(seq)
      [] OTHER -> Interleave(seq)

HuInit ==
    /\ \E c \in HuCounts, order \in HuOrders :
            huTiles = Arrange(order, TilesOfCounts(c, Len(HuFaces)))
    /\ huResult = "unset"
    /\ game = FirstDeal
    /\ last = [op |-> "startGame", who |-> "", wrote |-> TRUE]
    /\ stale = NoWrite
    /\ claims = <<>>
    /\ ScoreIdle
    /\ ChessIdle
    /\ BigIdle

HuCheck ==
    /\ huResult = "unset"
    /\ huResult' = IF checkHu(huTiles) THEN "true" ELSE "false"
    /\ UNCHANGED <<huTiles, mjVars, raceVars, scoreVars, chessVars, bigVars>>

HuNext == HuCheck

SpecHu == HuInit /\ [][HuNext]_vars

\* ---- what a complete hand is, stated on the multiset of faces -------------

Faces == 0 .. 33
faceOf(t) == t \div 4
FaceCount(tiles, f) == Cardinality({i \in 1 .. Len(tiles) : faceOf(tiles[i]) = f})

\* faces that can start a run: value 1..7 of a number suit
IsRunStart(f) == f < 27 /\ (f % 9) <= 6

\* one pair, plus triplets and runs, using every tile exactly once
IsCompleteHand(tiles) ==
    /\ Len(tiles) % 3 = 2
    /\ \E p \in {f \in Faces : FaceCount(tiles, f) >= 2} :
       \E trip \in SUBSET {f \in Faces : FaceCount(tiles, f) >= 3} :
       LET starts == {f \in Faces : /\ IsRunStart(f)
                                    /\ FaceCount(tiles, f) >= 1
                                    /\ FaceCount(tiles, f + 1) >= 1
                                    /\ FaceCount(tiles, f + 2) >= 1}
       IN  \E runs \in [starts -> 0 .. CopiesPerFace] :
             \A f \in Faces :
                FaceCount(tiles, f) =
                      (IF f = p THEN 2 ELSE 0)
                    + (IF f \in trip THEN 3 ELSE 0)
                    + (IF f \in starts THEN runs[f] ELSE 0)
                    + (IF f - 1 \in starts /\ IsRunStart(f - 1) THEN runs[f - 1] ELSE 0)
                    + (IF f - 2 \in starts /\ IsRunStart(f - 2) THEN runs[f - 2] ELSE 0)

\* C7: for every multiset of tiles, in any order, checkHu answers true exactly
\* when the size is 2 mod 3 and the tiles split into one pair plus sets that
\* are three identical tiles or three consecutive values of one number suit.
C7_CheckHuIffCompleteHand ==
    huResult # "unset" => (huResult = "true" <=> IsCompleteHand(huTiles))

\* a hand whose first pair candidate leaves the rest unpartitionable, won
\* through a later pair, handed over unsorted
C7_Witness_LaterPairWins ==
    /\ huResult = "true"
    /\ Len(huTiles) >= 5
    /\ huTiles # sortHand(huTiles)
    /\ LET sortedHand == sortHand(huTiles)
       IN  ~canFormSets(RemovePair(sortedHand, uniquePairs(sortedHand)[1]))

\* ------------------------------------------------------------------------
\* calculateScore as a pure function: winning hands of 17 tiles, built from a
\* pair and up to MaxConcealedSets concealed sets over a few faces, the other
\* sets declared as melds
\* ------------------------------------------------------------------------

MaxConcealedSets == 4

\* the sets of a complete Taiwanese hand
SetsInHand == 5

ScoreFaces == << <<"wan", 1>>, <<"wan", 2>>, <<"wan", 3>>, <<"wan", 4>>, <<"wan", 5>>,
                 <<"wind", 1>>, <<"dragon", 1>> >>

\* the concealed sets the hands are built from: a triplet of each face and
\* the runs of wan that start at 1, 2 and 3
ScoreSetKinds ==
    [k \in 1 .. Len(ScoreFaces) |-> [type |-> "pong", face |-> k]]
    \o [k \in 1 .. 3 |-> [type |-> "chow", face |-> k]]

RECURSIVE SumSeq(_)
SumSeq(seq) == IF Len(seq) = 0 THEN 0 ELSE seq[1] + SumSeq(Tail(seq))

\* how many tiles of face f the pair at face p and the sets q hold
BuiltCount(f, p, q) ==
    (IF f = p THEN 2 ELSE 0)
    + SumSeq([i \in 1 .. Len(q) |->
                  LET kind == ScoreSetKinds[q[i]]
                  IN  IF kind.type = "pong" THEN (IF kind.face = f THEN 3 ELSE 0)
                      ELSE (IF f >= kind.face /\ f <= kind.face + 2 THEN 1 ELSE 0)])

\* the first of the four tiles of each face
ScoreFaceTile == [n \in 1 .. Len(ScoreFaces) |-> TileOf(ScoreFaces[n][1], ScoreFaces[n][2], 0)]

RECURSIVE TilesOfFaces(_, _)
TilesOfFaces(c, n) ==
    IF n = 0 THEN <<>>
    ELSE TilesOfFaces(c, n - 1) \o [k \in 1 .. c[n] |-> ScoreFaceTile[n] + (k - 1)]

MeldOf(type, suit, values) ==
    [type |-> type,
     tiles |-> [k \in 1 .. Len(values) |-> TileOf(suit, values[k], k - 1)],
     fromPlayer |-> "bot_1"]

\* the declared melds of the four kinds of hand: triplets only, runs and
\* triplets, two dragon triplets first, three wind triplets first
ScoreMelds ==
    [dragons |-> << MeldOf("pong", "dragon", <<2, 2, 2>>), MeldOf("pong", "dragon", <<3, 3, 3>>),
                    MeldOf("pong", "tiao", <<9, 9, 9>>), MeldOf("chow", "tong", <<4, 5, 6>>),
                    MeldOf("pong", "tiao", <<7, 7, 7>>) >>,
     winds |-> << MeldOf("pong", "wind", <<2, 2, 2>>), MeldOf("pong", "wind", <<3, 3, 3>>),
                  MeldOf("pong", "wind", <<4, 4, 4>>), MeldOf("pong", "tiao", <<9, 9, 9>>),
                  MeldOf("chow", "tong", <<4, 5, 6>>) >>,
     pongs |-> << MeldOf("pong", "tiao", <<9, 9, 9>>), MeldOf("pong", "tiao", <<8, 8, 8>>),
                  MeldOf("pong", "tiao", <<7, 7, 7>>), MeldOf("pong", "tiao", <<6, 6, 6>>),
                  MeldOf("pong", "tiao", <<5, 5, 5>>) >>,
     mixed |-> << MeldOf("chow", "tong", <<4, 5, 6>>), MeldOf("pong", "tiao", <<9, 9, 9>>),
                  MeldOf("chow", "tong", <<7, 8, 9>>), MeldOf("kong", "tiao", <<8, 8, 8, 8>>),
                  MeldOf("chow", "tiao", <<1, 2, 3>>) >>]

\* the ascending lists of k set kinds, none below lo
RECURSIVE SetChoices(_, _)
SetChoices(k, lo) ==
    IF k = 0 THEN {<<>>}
    ELSE UNION {{<<a>> \o r : r \in SetChoices(k - 1, a)} : a \in lo .. Len(ScoreSetKinds)}

\* the tiles per face of every winning hand that can be built
ScoreCounts ==
    {c \in UNION {{[f \in 1 .. Len(ScoreFaces) |-> BuiltCount(f, p, q)] :
                      p \in 1 .. Len(ScoreFaces), q \in SetChoices(k, 1)} :
                  k \in 0 .. MaxConcealedSets} :
        \A f \in 1 .. Len(ScoreFaces) : c[f] <= CopiesPerFace}

\* the kinds of declared melds and the order of the concealed tiles
ScoreStyles ==
    {<<"pongs", "ascending">>, <<"pongs", "descending">>,
     <<"mixed", "ascending">>, <<"mixed", "descending">>,
     <<"dragons", "ascending">>, <<"winds", "ascending">>}

ScoreInit ==
    /\ \E c \in ScoreCounts, z \in BOOLEAN, kind \in ScoreStyles :
          LET style == kind[1]
              tiles == Arrange(kind[2], TilesOfFaces(c, Len(ScoreFaces)))
              k == (Len(tiles) - 2) \div 3
              declared == IF k >= SetsInHand THEN 0 ELSE SetsInHand - k
          IN  scoreCtx = << [player |-> [hand |-> SubSeq(tiles, 1, Len(tiles) - 1),
                                        melds |-> SubSeq(ScoreMelds[style], 1, declared)],
                            winningTile |-> tiles[Len(tiles)],
                            isZimo |-> z,
                            isLastTile |-> FALSE,
                            isKongDraw |-> FALSE,
                            prevailingWind |-> 0,
                            seatWind |-> 1,
                            isDealer |-> FALSE,
                            lianZhuangCount |-> 0] >>
    /\ scoreResult = <<>>
    /\ game = FirstDeal
    /\ last = [op |-> "startGame", who |-> "", wrote |-> TRUE]
    /\ huTiles = <<>>
    /\ huResult = "unset"
    /\ stale = NoWrite
    /\ claims = <<>>
    /\ ChessIdle
    /\ BigIdle

ScoreCall ==
    /\ scoreCtx # <<>>
    /\ scoreResult = <<>>
    /\ scoreResult' = <<calculateScore(scoreCtx[1])>>
    /\ UNCHANGED <<scoreCtx, mjVars, huVars, raceVars, chessVars, bigVars>>

ScoreNext == ScoreCall

SpecScore == ScoreInit /\ [][ScoreNext]_vars

\* ------------------------------------------------------------------------
\* Claims about calculateScore
\* ------------------------------------------------------------------------

\* every way to split the tiles into triplets and runs: the lowest tile lies
\* in a triplet of its face or in the run that starts at it
RECURSIVE AllSetSplits(_)
AllSetSplits(tiles) ==
    IF Len(tiles) = 0 THEN {<<>>}
    ELSE LET low == tiles[CHOOSE i \in 1 .. Len(tiles) :
                              \A j \in 1 .. Len(tiles) :
                                  scoreKey(tiles[i]) < scoreKey(tiles[j])
                                  \/ (scoreKey(tiles[i]) = scoreKey(tiles[j]) /\ i <= j)]
             v == valueOf(low)
             at(w) == FindIndex(tiles, LAMBDA t : suitOf(t) = suitOf(low) /\ valueOf(t) = w)
             triplets == IF CountFace(tiles, low) >= 3
                         THEN {<<[type |-> "pong", suit |-> suitOf(low), value |-> v]>> \o r :
                                  r \in AllSetSplits(RemoveFirstThree(tiles, low))}
                         ELSE {}
             runs == IF isNumberSuit(suitOf(low)) /\ at(v + 1) # 0 /\ at(v + 2) # 0
                     THEN {<<[type |-> "chow", suit |-> suitOf(low), value |-> v]>> \o r :
                              r \in AllSetSplits(RemoveThreeAt(tiles, at(v), at(v + 1), at(v + 2)))}
                     ELSE {}
         IN  triplets \cup runs

\* every decomposition of the tiles into one pair plus triplets and runs
AllDecomps(tiles) ==
    UNION {{[pair |-> [suit |-> suitOf(tiles[i]), value |-> valueOf(tiles[i])], sets |-> r] :
               r \in AllSetSplits(RemovePair(tiles, <<suitOf(tiles[i]), valueOf(tiles[i])>>))} :
           i \in {i \in 1 .. Len(tiles) : CountFace(tiles, tiles[i]) >= 2}}

\* the concealed tiles of the call: the hand plus the winning tile
ScoredTiles == Append(scoreCtx[1].player.hand, scoreCtx[1].winningTile)

\* the fan total the rule table gives the decomposition in the call's context
FanOf(decomp) == SumFan(scoreItems(scoreCtx[1], decomp))

\* the fan totals of all decompositions of the call's concealed tiles
FanTotals == {FanOf(d) : d \in AllDecomps(ScoredTiles)}

\* C13 (as stated): the totalFan of a winning hand is the largest fan total
\* that the rule table gives to a decomposition of its concealed tiles.
C13_TotalFanIsMaximum ==
    scoreResult # <<>> =>
        LET totals == FanTotals
        IN  /\ \A f \in totals : f <= scoreResult[1].totalFan
            /\ scoreResult[1].totalFan \in totals

\* C13 (amended): the totalFan of a winning hand is at least the fan total of
\* every decomposition of its concealed tiles; it is the largest of them when
\* some decomposition scores, and the one fan of the plain win when none does.
C13_TotalFanCoversEveryDecomposition ==
    scoreResult # <<>> =>
        LET totals == FanTotals
        IN  /\ \A f \in totals : f <= scoreResult[1].totalFan
            /\ \/ scoreResult[1].totalFan \in totals
               \/ scoreResult[1].totalFan = 1 /\ totals = {0}

\* a scored hand that splits, around one pair, both into triplets and into
\* runs, the two splits scoring differently
C13_Witness_TripletsBeatRuns ==
    /\ scoreResult # <<>>
    /\ \E d1, d2 \in AllDecomps(ScoredTiles) :
           /\ d1.pair = d2.pair
           /\ FanOf(d1) < FanOf(d2)
           /\ FanOf(d2) = scoreResult[1].totalFan

\* the names of the items of the call's result
ScoredNames == Names(scoreResult[1].items)

\* C29: the items calculateScore returns never hold the big three dragons
\* together with a single dragon triplet item, never the four concealed
\* triplets together with the three concealed triplets, and never the big or
\* small four winds together with a prevailing-wind or seat-wind item
C29_HigherRuleReplacesLower ==
    scoreResult # <<>> =>
        /\ "daSanYuan" \in ScoredNames =>
              ScoredNames \cap {DragonItems[1], DragonItems[2], DragonItems[3]} = {}
        /\ "siAnKe" \in ScoredNames => "sanAnKe" \notin ScoredNames
        /\ ({"daSiXi", "xiaoSiXi"} \cap ScoredNames # {}) => ScoredNames \cap WindItems = {}

\* a scored hand with the triplets of all four winds, the seat wind among them
C29_Witness_BigFourWindsWithSeatWind ==
    /\ scoreResult # <<>>
    /\ "daSiXi" \in ScoredNames
    /\ \E k \in 1 .. Len(scoreCtx[1].player.melds) :
          LET t == scoreCtx[1].player.melds[k].tiles[1]
          IN  suitOf(t) = "wind" /\ valueOf(t) = scoreCtx[1].seatWind + 1

\* C30: calculateScore returns a totalFan of at least 1 that is the sum of
\* the fans of its items, the one-fan plain win is among the items exactly
\* when no other item applies, and totalPoints is 1 + totalFan
C30_FanIsItemSumWithPlainWinFloor ==
    scoreResult # <<>> =>
        LET r == scoreResult[1]
        IN  /\ r.totalFan >= 1
            /\ r.totalFan = SumFan(r.items)
            /\ "jiHu" \in ScoredNames <=> ScoredNames = {"jiHu"}
            /\ "jiHu" \in ScoredNames <=> FanTotals \subseteq {0}
            /\ r.totalPoints = 1 + r.totalFan

\* a scored hand to which no rule applies: the plain win alone, two points
C30_Witness_PlainWinAlone ==
    /\ scoreResult # <<>>
    /\ scoreResult[1].items = <<Item("jiHu", 1)>>
    /\ scoreResult[1].totalPoints = 2

\* ------------------------------------------------------------------------
\* canCapture and checkWinner as pure functions: an attacker on a square of
\* CaptureFrom, a target on a square of CaptureTo and up to MaxScreens other
\* pieces between them
\* ------------------------------------------------------------------------

MaxScreens == 2

CaptureFrom == {7, 18}

CaptureTo == {2, 3, 4, 5, 6, 8, 10, 12, 15, 16, 17, 19, 20, 23, 26, 27, 31}

\* the squares strictly between two squares of one row or one column
Between(a, b) ==
    {x \in Squares :
        /\ Min2(a, b) < x /\ x < Max2(a, b)
        /\ \/ a \div 8 = b \div 8
           \/ a % 8 = b % 8 /\ x % 8 = a % 8}

CaptureInit ==
    /\ \E from \in CaptureFrom, to \in CaptureTo,
          at \in PieceTypes, tt \in PieceTypes, ac \in Colors, tc \in Colors,
          af \in BOOLEAN, tf \in BOOLEAN, sf \in BOOLEAN :
          \E screens \in SUBSET Between(from, to) :
              LET attacker == [type |-> at, color |-> ac, isFlipped |-> af, position |-> from]
                  target == [type |-> tt, color |-> tc, isFlipped |-> tf, position |-> to]
                  board == [sq \in Squares |->
                               IF sq = from THEN attacker
                               ELSE IF sq = to THEN target
                               ELSE IF sq \in screens
                               THEN [type |-> "pawn", color |-> ac, isFlipped |-> sf, position |-> sq]
                               ELSE NoPiece]
              IN  /\ Cardinality(screens) <= MaxScreens
                  /\ ~(at = "king" /\ tt = "king" /\ ac = tc)
                  /\ capArgs = << [attacker |-> attacker, target |-> target, board |-> board] >>
    /\ capResult = [op |-> "", value |-> ""]
    /\ chess = <<>>
    /\ chessLast = <<>>
    /\ game = FirstDeal
    /\ last = [op |-> "startGame", who |-> "", wrote |-> TRUE]
    /\ huTiles = <<>>
    /\ huResult = "unset"
    /\ stale = NoWrite
    /\ claims = <<>>
    /\ ScoreIdle
    /\ BigIdle

CanCaptureCall ==
    /\ capArgs # <<>>
    /\ capResult.op = ""
    /\ capResult' = [op |-> "canCapture",
                     value |-> IF canCapture(capArgs[1].attacker, capArgs[1].target, capArgs[1].board)
                               THEN "true" ELSE "false"]
    /\ UNCHANGED <<chess, chessLast, capArgs, mjVars, huVars, raceVars, scoreVars, bigVars>>

CheckWinnerCall ==
    /\ capArgs # <<>>
    /\ capResult.op = ""
    /\ capResult' = [op |-> "checkWinner", value |-> checkWinner(capArgs[1].board)]
    /\ UNCHANGED <<chess, chessLast, capArgs, mjVars, huVars, raceVars, scoreVars, bigVars>>

CaptureNext == CanCaptureCall \/ CheckWinnerCall

SpecCapture == CaptureInit /\ [][CaptureNext]_vars

\* ------------------------------------------------------------------------
\* Claims about canCapture and checkWinner
\* ------------------------------------------------------------------------

\* canCapture was called and returned this
Captured(value) == capResult.op = "canCapture" /\ capResult.value = value

\* the squares next to a square on the grid of 4 rows of 8: above, below, left
\* unless first of its row, right unless last of its row
Neighbours(sq) ==
    {n \in Squares :
        \/ n = sq - 8
        \/ n = sq + 8
        \/ n = sq - 1 /\ sq % 8 # 0
        \/ n = sq + 1 /\ sq % 8 # 7}

OppositeFaceUpTarget ==
    /\ capArgs[1].target.isFlipped
    /\ capArgs[1].attacker.color # capArgs[1].target.color

\* the occupied squares strictly between attacker and target
ScreensBetween ==
    {x \in Between(capArgs[1].attacker.position, capArgs[1].target.position) :
        capArgs[1].board[x] # NoPiece}

\* C15: canCapture returns true only if attacker and target are both face-up
\* and have different colours.
C15_CaptureNeedsBothFaceUp ==
    Captured("true") =>
        /\ capArgs[1].attacker.isFlipped
        /\ capArgs[1].target.isFlipped
        /\ capArgs[1].attacker.color # capArgs[1].target.color

\* C16: for a cannon attacker and a face-up target of the opposite colour,
\* canCapture returns true exactly when the two squares share a row or a
\* column and exactly one square strictly between them is occupied, by a piece
\* face-up or face-down; with no or with two or more it returns false.
C16_CannonNeedsOneScreen ==
    (capResult.op = "canCapture" /\ capArgs[1].attacker.type = "cannon" /\ OppositeFaceUpTarget) =>
        LET a == capArgs[1].attacker.position
            b == capArgs[1].target.position
        IN  Captured("true") <=>
                /\ (a \div 8 = b \div 8 \/ a % 8 = b % 8)
                /\ Cardinality(ScreensBetween) = 1

\* a cannon that captures over a single face-down piece, two squares away or more
C16_Witness_CannonOverFaceDownScreen ==
    /\ Captured("true")
    /\ capArgs[1].attacker.type = "cannon"
    /\ \E x \in ScreensBetween : ~capArgs[1].board[x].isFlipped
    /\ Cardinality(Between(capArgs[1].attacker.position, capArgs[1].target.position)) >= 2

\* C17: for a non-cannon attacker and a face-up target of the opposite colour,
\* canCapture returns true exactly when the squares are orthogonally adjacent
\* and either a pawn attacks a king, or the attacker's rank is at least the
\* target's and it is not a king attacking a pawn.
C17_AdjacentAndRankOrPawnKing ==
    (capResult.op = "canCapture" /\ capArgs[1].attacker.type # "cannon" /\ OppositeFaceUpTarget) =>
        LET a == capArgs[1].attacker
            t == capArgs[1].target
        IN  Captured("true") <=>
                /\ t.position \in Neighbours(a.position)
                /\ \/ a.type = "pawn" /\ t.type = "king"
                   \/ /\ PIECE_VALUES[a.type] >= PIECE_VALUES[t.type]
                      /\ ~(a.type = "king" /\ t.type = "pawn")

\* a pawn that captures the king above it
C17_Witness_PawnTakesKing ==
    /\ Captured("true")
    /\ capArgs[1].attacker.type = "pawn"
    /\ capArgs[1].target.type = "king"
    /\ capArgs[1].target.position = capArgs[1].attacker.position - 8

\* the colour has a piece on the board of the call
OnBoard(color) == \E sq \in Squares : capArgs[1].board[sq] # NoPiece /\ capArgs[1].board[sq].color = color

\* C19: checkWinner returns null when both colours have a piece on the board,
\* and the other colour when exactly one colour has none.
C19_WinnerIsTheColourLeft ==
    capResult.op = "checkWinner" =>
        /\ (OnBoard("red") /\ OnBoard("black")) => capResult.value = NoColor
        /\ (OnBoard("red") /\ ~OnBoard("black")) => capResult.value = "red"
        /\ (OnBoard("black") /\ ~OnBoard("red")) => capResult.value = "black"

\* a board on which only black pieces are left, won by black
C19_Witness_OnlyBlackLeft ==
    /\ capResult.op = "checkWinner"
    /\ capResult.value = "black"
    /\ OnBoard("black")
    /\ ~OnBoard("red")

\* ------------------------------------------------------------------------
\* Dark Chess: one game between the host and a second player, human or bot,
\* every client seeing each write before anyone acts again
\* ------------------------------------------------------------------------

\* the colour the user plays
playerColor(s, user) ==
    IF s.players.red = user THEN "red"
    ELSE IF s.players.black = user THEN "black"
    ELSE NoColor

OtherColor(color) == IF color = "red" THEN "black" ELSE "red"

\* handleFlip that binds no colour to the players
handleFlipKeepsPlayers(s, user, index) ==
    LET piece == s.board[index]
        board == [s.board EXCEPT ![index] = [piece EXCEPT !.isFlipped = TRUE]]
        nextPlayer == OtherColor(s.currentPlayer)
        finalUpdates == [board |-> board,
                         currentPlayer |-> nextPlayer,
                         lastMove |-> <<[from |-> index, to |-> index, type |-> "flip"]>>]
    IN  IF s.currentPlayer # playerColor(s, user) THEN NoWrite
        ELSE IF piece = NoPiece \/ piece.isFlipped THEN NoWrite
        ELSE IF ~s.isColorAssigned
             THEN [isColorAssigned |-> TRUE] @@ finalUpdates
        ELSE finalUpdates

handleFlip(s, user, index) ==
    LET piece == s.board[index]
        board == [s.board EXCEPT ![index] = [piece EXCEPT !.isFlipped = TRUE]]
        nextPlayer == OtherColor(s.currentPlayer)
        finalUpdates == [board |-> board,
                         currentPlayer |-> nextPlayer,
                         lastMove |-> <<[from |-> index, to |-> index, type |-> "flip"]>>]
    IN  IF s.currentPlayer # playerColor(s, user) THEN NoWrite
        ELSE IF piece = NoPiece \/ piece.isFlipped THEN NoWrite
        ELSE IF ~s.isColorAssigned
             THEN IF piece.color # s.currentPlayer
                  THEN [isColorAssigned |-> TRUE,
                        players |-> [red |-> s.players.black, black |-> s.players.red],
                        currentPlayer |-> s.currentPlayer] @@ finalUpdates
                  ELSE [isColorAssigned |-> TRUE] @@ finalUpdates
        ELSE finalUpdates

\* MoveWrite that forgets the piece it takes off the board
MoveWriteForgetsCaptured(s, from, to) ==
    LET attacker == s.board[from]
        target == s.board[to]
        moved == [s.board EXCEPT ![to] = [attacker EXCEPT !.position = to], ![from] = NoPiece]
        capturedPieces == s.capturedPieces
        winner == checkWinner(moved)
        nextPlayer == OtherColor(s.currentPlayer)
    IN  IF attacker = NoPiece THEN NoWrite
        ELSE IF target # NoPiece /\ ~canCapture(attacker, target, s.board) THEN NoWrite
        ELSE IF target = NoPiece /\ ~isValidMove(from, to) THEN NoWrite
        ELSE [board |-> moved,
              currentPlayer |-> IF winner # NoColor THEN NoColor ELSE nextPlayer,
              gameStatus |-> IF winner # NoColor THEN "ended" ELSE "playing",
              winner |-> winner,
              lastMove |-> <<[from |-> from, to |-> to,
                              type |-> IF target # NoPiece THEN "capture" ELSE "move"]>>,
              capturedPieces |-> capturedPieces]

\* what handleMove and the bot's botMove write once the caller is let through
MoveWrite(s, from, to) ==
    LET attacker == s.board[from]
        target == s.board[to]
        moved == [s.board EXCEPT ![to] = [attacker EXCEPT !.position = to], ![from] = NoPiece]
        capturedPieces == IF target = NoPiece THEN s.capturedPieces
                          ELSE [s.capturedPieces EXCEPT
                                    ![s.currentPlayer] = Append(s.capturedPieces[s.currentPlayer], target)]
        winner == checkWinner(moved)
        nextPlayer == OtherColor(s.currentPlayer)
    IN  IF attacker = NoPiece THEN NoWrite
        ELSE IF target # NoPiece /\ ~canCapture(attacker, target, s.board) THEN NoWrite
        ELSE IF target = NoPiece /\ ~isValidMove(from, to) THEN NoWrite
        ELSE [board |-> moved,
              currentPlayer |-> IF winner # NoColor THEN NoColor ELSE nextPlayer,
              gameStatus |-> IF winner # NoColor THEN "ended" ELSE "playing",
              winner |-> winner,
              lastMove |-> <<[from |-> from, to |-> to,
                              type |-> IF target # NoPiece THEN "capture" ELSE "move"]>>,
              capturedPieces |-> capturedPieces]

handleMove(s, user, from, to) ==
    IF s.currentPlayer # playerColor(s, user) THEN NoWrite
    ELSE MoveWrite(s, from, to)

\* surrender: the other colour wins; currentPlayer is left as it is
surrender(s, user) ==
    LET winner == IF s.players.red = user THEN "black" ELSE "red"
    IN  [gameStatus |-> "ended", winner |-> winner, endReason |-> "surrender"]

\* the bot effect of the host: botFlip
botFlip(s, flipIndex) ==
    LET piece == s.board[flipIndex]
        newBoard == [s.board EXCEPT ![flipIndex] = [piece EXCEPT !.isFlipped = TRUE]]
        nextPlayer == OtherColor(s.currentPlayer)
        finalUpdates == [board |-> newBoard,
                         currentPlayer |-> nextPlayer,
                         lastMove |-> <<[from |-> flipIndex, to |-> flipIndex, type |-> "flip"]>>]
    IN  IF piece = NoPiece \/ piece.isFlipped THEN NoWrite
        ELSE IF ~s.isColorAssigned
             THEN IF piece.color # s.currentPlayer
                  THEN [isColorAssigned |-> TRUE,
                        players |-> [red |-> s.players.black, black |-> s.players.red],
                        currentPlayer |-> s.currentPlayer] @@ finalUpdates
                  ELSE [isColorAssigned |-> TRUE] @@ finalUpdates
        ELSE finalUpdates

\* the squares the explored games flip, move from and move to
PlaySquares == {6, 7, 8, 9, 15}

\* the bot's decision: a capture when there is one; else a flip or a move to
\* an empty square; each entry is the step taken and its arguments
BotDecisions(s) ==
    LET myPieces == {sq \in Squares : /\ s.board[sq] # NoPiece
                                      /\ s.board[sq].isFlipped
                                      /\ s.board[sq].color = s.currentPlayer}
        unrevealed == {sq \in Squares : s.board[sq] # NoPiece /\ ~s.board[sq].isFlipped}
        possibleCaptures == {m \in myPieces \X Squares :
                                /\ s.board[m[2]] # NoPiece
                                /\ s.board[m[2]].isFlipped
                                /\ s.board[m[2]].color # s.currentPlayer
                                /\ canCapture(s.board[m[1]], s.board[m[2]], s.board)}
        possibleMoves == {m \in myPieces \X Squares :
                             s.board[m[2]] = NoPiece /\ isValidMove(m[1], m[2])}
        flips == {<<"botFlip", sq, sq>> : sq \in unrevealed \cap PlaySquares}
        moves == {<<"botMove", m[1], m[2]>> : m \in possibleMoves}
    IN  IF possibleCaptures # {} THEN {<<"botMove", m[1], m[2]>> : m \in possibleCaptures}
        ELSE flips \cup moves

\* initializeBoard can return any arrangement; the games explored start from this one
ChessDeck ==
    << <<"pawn", "red">>, <<"pawn", "red">>, <<"advisor", "black">>, <<"elephant", "black">>,
       <<"rook", "black">>, <<"cannon", "black">>, <<"elephant", "black">>, <<"pawn", "red">>,
       <<"rook", "red">>, <<"knight", "black">>, <<"pawn", "black">>, <<"pawn", "black">>,
       <<"pawn", "black">>, <<"advisor", "red">>, <<"elephant", "red">>, <<"king", "black">>,
       <<"rook", "red">>, <<"knight", "red">>, <<"cannon", "red">>, <<"pawn", "red">>,
       <<"pawn", "red">>, <<"advisor", "black">>, <<"rook", "black">>, <<"knight", "black">>,
       <<"cannon", "black">>, <<"pawn", "black">>, <<"pawn", "black">>, <<"king", "red">>,
       <<"advisor", "red">>, <<"elephant", "red">>, <<"knight", "red">>, <<"cannon", "red">> >>

MaxPlies == 5

\* the second player of the room
ChessOpponents == {"u2", "bot_1"}

\* startGame for Dark Chess
startChess(opponent, p1IsRed, first) ==
    [board |-> [sq \in Squares |-> [type |-> ChessDeck[sq + 1][1], color |-> ChessDeck[sq + 1][2],
                                    isFlipped |-> FALSE, position |-> sq]],
     currentPlayer |-> first,
     players |-> [red |-> IF p1IsRed THEN Host ELSE opponent,
                  black |-> IF p1IsRed THEN opponent ELSE Host],
     gameStatus |-> "playing",
     isColorAssigned |-> FALSE,
     winner |-> NoColor,
     endReason |-> "",
     lastMove |-> <<>>,
     capturedPieces |-> [red |-> <<>>, black |-> <<>>]]

\* the conditions under which the bot effect of the host's client sets its timer
BotOnTurn(s) ==
    /\ s.gameStatus = "playing"
    /\ s.currentPlayer # NoColor
    /\ isBot(s.players[s.currentPlayer])

\* the bot effect runs again only when currentPlayer or gameStatus changes
\* (its dependency list): then the old timer is cleared and a new one is set
\* if the bot is on turn; otherwise a timer that has not fired stays set
botTimerAfter(s, next, armed, op) ==
    IF next.currentPlayer # s.currentPlayer \/ next.gameStatus # s.gameStatus
    THEN BotOnTurn(next)
    ELSE armed /\ op \notin {"botFlip", "botMove"}

ChessInit ==
    /\ \E opponent \in ChessOpponents, p1IsRed \in BOOLEAN, first \in Colors :
           chess = startChess(opponent, p1IsRed, first)
    /\ chessLast = [op |-> "startGame", who |-> "", from |-> -1, to |-> -1, wrote |-> TRUE,
                    swapped |-> FALSE, ply |-> 0, armed |-> BotOnTurn(chess)]
    /\ CaptureIdle
    /\ game = FirstDeal
    /\ last = [op |-> "startGame", who |-> "", wrote |-> TRUE]
    /\ huTiles = <<>>
    /\ huResult = "unset"
    /\ stale = NoWrite
    /\ claims = <<>>
    /\ ScoreIdle
    /\ BigIdle

ChessCallOps == {"call:move", "call:flip"}

\* a handler ran for `who` and wrote u (nothing when u is NoWrite); a game is
\* followed for MaxPlies writes, or up to its first direct call
ChessStep(op, who, from, to, u) ==
    /\ chessLast.op \notin ChessCallOps
    /\ chessLast.ply < MaxPlies
    /\ chess' = Merge(chess, u)
    /\ chessLast' = [op |-> op, who |-> who, from |-> from, to |-> to,
                     wrote |-> (DOMAIN u # {}),
                     swapped |-> ("players" \in DOMAIN u),
                     ply |-> IF DOMAIN u # {} THEN chessLast.ply + 1 ELSE chessLast.ply,
                     armed |-> botTimerAfter(chess, Merge(chess, u), chessLast.armed, op)]
    /\ UNCHANGED <<capArgs, capResult, mjVars, huVars, raceVars, scoreVars, bigVars>>

\* Game: a click of the square does something on the user's own turn only
isMyTurn(s, u) ==
    /\ playerColor(s, u) # NoColor
    /\ s.currentPlayer = playerColor(s, u)
    /\ s.gameStatus = "playing"

\* Game: nothing selected, click on a face-down piece
HumanFlip(u) ==
    /\ isMyTurn(chess, u)
    /\ \E index \in PlaySquares :
           /\ chess.board[index] # NoPiece
           /\ ~chess.board[index].isFlipped
           /\ ChessStep("flip", u, index, index, handleFlip(chess, u, index))

\* Game: click on a face-up piece of the own colour, then on a square that
\* holds no face-up piece of the own colour
HumanMove(u) ==
    /\ isMyTurn(chess, u)
    /\ \E selectedPos \in PlaySquares, index \in PlaySquares :
           /\ chess.board[selectedPos] # NoPiece
           /\ chess.board[selectedPos].isFlipped
           /\ chess.board[selectedPos].color = playerColor(chess, u)
           /\ selectedPos # index
           /\ ~(/\ chess.board[index] # NoPiece
                /\ chess.board[index].isFlipped
                /\ chess.board[index].color = playerColor(chess, u))
           /\ ChessStep("move", u, selectedPos, index, handleMove(chess, u, selectedPos, index))

\* the Dark Chess bot effect in the host's client
BotPlay ==
    /\ chessLast.armed
    /\ chess.gameStatus = "playing"
    /\ chess.currentPlayer # NoColor
    /\ isBot(chess.players[chess.currentPlayer])
    /\ \E d \in BotDecisions(chess) :
           ChessStep(d[1], chess.players[chess.currentPlayer], d[2], d[3],
                     IF d[1] = "botFlip" THEN botFlip(chess, d[2]) ELSE MoveWrite(chess, d[2], d[3]))

\* the exported handlers, called without the board in between
CallHandleMove(u) ==
    /\ u \in Humans
    /\ \E from \in PlaySquares, to \in PlaySquares :
           ChessStep("call:move", u, from, to, handleMove(chess, u, from, to))

CallHandleFlip(u) ==
    /\ u \in Humans
    /\ \E index \in PlaySquares :
           ChessStep("call:flip", u, index, index, handleFlip(chess, u, index))

ChessNext ==
    \/ \E u \in Humans : HumanFlip(u)
    \/ \E u \in Humans : HumanMove(u)
    \/ BotPlay
    \/ \E u \in Humans : CallHandleMove(u)
    \/ \E u \in Humans : CallHandleFlip(u)

SpecChess == ChessInit /\ [][ChessNext]_vars

\* the game played through the board and the bot only; the bot's timer fires
\* whenever it stays set
ChessBoardNext ==
    \/ \E u \in Humans : HumanFlip(u)
    \/ \E u \in Humans : HumanMove(u)
    \/ BotPlay

SpecChessLive == ChessInit /\ [][ChessBoardNext]_vars /\ WF_vars(BotPlay)

\* ------------------------------------------------------------------------
\* Claims about a Dark Chess game
\* ------------------------------------------------------------------------

ChessMoveOps == {"move", "botMove", "call:move"}

ChessFlipOps == {"flip", "botFlip", "call:flip"}

\* the step is handleMove or botMove for the player on turn, from a square that
\* holds a piece
MoveOfPieceOnTurn ==
    /\ chessLast'.op \in ChessMoveOps
    /\ chess.currentPlayer = playerColor(chess, chessLast'.who)
    /\ chess.board[chessLast'.from] # NoPiece

\* the step put the piece of `from` on the empty square `to`
SlideAccepted ==
    /\ chessLast'.wrote
    /\ chess.board[chessLast'.to] = NoPiece
    /\ chess'.board[chessLast'.to] = [chess.board[chessLast'.from] EXCEPT !.position = chessLast'.to]
    /\ chess'.board[chessLast'.from] = NoPiece

\* C18: a slide of a piece from square `from` to square `to` is accepted
\* exactly when `to` is empty and orthogonally adjacent to `from` on the grid
\* of 4 rows of 8, the end of a row not being adjacent to the start of the next.
C18_SlideIffEmptyAndAdjacent ==
    [][MoveOfPieceOnTurn =>
          (SlideAccepted <=>
               /\ chess.board[chessLast'.to] = NoPiece
               /\ chessLast'.to \in Neighbours(chessLast'.from))]_vars

\* a piece has slid to the empty square next to it through the board
C18_Witness_SlideThroughBoard ==
    /\ chessLast.op = "move"
    /\ chessLast.wrote
    /\ chess.lastMove[1].type = "move"
    /\ chess.board[chessLast.to] # NoPiece
    /\ chess.board[chessLast.from] = NoPiece

\* no piece is face-up and none has been captured: no flip has happened yet
NothingFlipped(s) ==
    /\ \A sq \in Squares : s.board[sq] # NoPiece /\ ~s.board[sq].isFlipped
    /\ s.capturedPieces.red = <<>>
    /\ s.capturedPieces.black = <<>>

\* C20: right after the first flip of a game the player who flipped holds the
\* colour of the flipped piece, isColorAssigned is true and the turn belongs
\* to the other player; no later flip changes which player holds which colour.
C20_FirstFlipBindsColours ==
    [][(chessLast'.op \in ChessFlipOps /\ chessLast'.wrote) =>
          IF NothingFlipped(chess)
          THEN LET flipper == chess.players[chess.currentPlayer]
                   flipped == chess.board[chessLast'.from]
               IN  /\ chess'.players[flipped.color] = flipper
                   /\ chess'.isColorAssigned
                   /\ chess'.currentPlayer # NoColor
                   /\ chess'.players[chess'.currentPlayer] # flipper
          ELSE chess'.players = chess.players]_vars

\* two flips have happened: the first bound its piece's colour to the player
\* who flipped it, the second was made by the other player and turned up a
\* piece of the first player's colour, and still holds its own colour
C20_Witness_SecondFlipOfOtherColour ==
    /\ chessLast.op \in ChessFlipOps
    /\ chessLast.wrote
    /\ chessLast.ply = 2
    /\ chess.isColorAssigned
    /\ chess.players[chess.board[chessLast.from].color] # chessLast.who
    /\ \E sq \in Squares \ {chessLast.from} :
           /\ chess.board[sq].isFlipped
           /\ chess.players[chess.board[sq].color] # chessLast.who
           /\ chess.players[chess.currentPlayer] = chess.players[chess.board[sq].color]

\* the pieces of a type and colour that stand on the board
PiecesOnBoard(s, type, color) ==
    Cardinality({sq \in Squares : s.board[sq] # NoPiece /\ s.board[sq].type = type
                                  /\ s.board[sq].color = color})

\* the pieces of a type and colour in the two capturedPieces lists
PiecesCaptured(s, type, color) ==
    LET hits(list) == Cardinality({i \in 1 .. Len(list) : list[i].type = type /\ list[i].color = color})
    IN  hits(s.capturedPieces.red) + hits(s.capturedPieces.black)

\* C21: the pieces on the board together with the pieces in capturedPieces are
\* exactly the 32 initial pieces: per colour 1 king, 2 advisors, 2 elephants,
\* 2 rooks, 2 knights, 2 cannons and 5 pawns, each counted once.
C21_PiecesConserved ==
    \A type \in PieceTypes, color \in Colors :
        PiecesOnBoard(chess, type, color) + PiecesCaptured(chess, type, color) = PieceCounts[type]

\* a piece has been captured and the capturing piece has moved on since
C21_Witness_CaptureThenMove ==
    /\ Len(chess.capturedPieces.red) + Len(chess.capturedPieces.black) >= 1
    /\ chessLast.wrote
    /\ chessLast.op \in ChessMoveOps
    /\ chess.lastMove[1].type = "move"

\* ------------------------------------------------------------------------
\* detectHandType as a pure function: every list of at most MaxPlayLen
\* different cards out of the ten and jack of clubs and the queens, kings,
\* aces and twos, in ascending order and, for the lists that detect5CardHand
\* does not sort, in descending order as well
\* ------------------------------------------------------------------------

MaxPlayLen == 6


DetectCards ==
    {CardOf(0, 10), CardOf(0, 11)} \cup {CardOf(suit, rank) : suit \in 0 .. 3, rank \in 12 .. 15}

Backwards(seq) == [i \in 1 .. Len(seq) |-> seq[Len(seq) + 1 - i]]

DetectInputs == {S \in SUBSET DetectCards : Cardinality(S) <= MaxPlayLen}

DetectInit ==
    /\ \E S \in DetectInputs :
       \E descending \in IF Cardinality(S) \in 2 .. 3 THEN BOOLEAN ELSE {FALSE} :
           bigLast = [op |-> "",
                      cards |-> IF descending THEN Backwards(sortCards(S)) ELSE sortCards(S),
                      lastPlay |-> <<>>,
                      value |-> ""]
    /\ bigTwo = <<>>
    /\ game = <<>>
    /\ last = [op |-> "startGame", who |-> "", wrote |-> TRUE]
    /\ huTiles = <<>>
    /\ huResult = "unset"
    /\ stale = NoWrite
    /\ claims = <<>>
    /\ ScoreIdle
    /\ ChessIdle

DetectCall ==
    /\ bigLast.op = ""
    /\ bigLast' = [bigLast EXCEPT !.op = "detectHandType", !.value = detectHandType(bigLast.cards)]
    /\ UNCHANGED <<bigTwo, mjVars, huVars, raceVars, scoreVars, chessVars>>

DetectNext == DetectCall

SpecDetect == DetectInit /\ [][DetectNext]_vars

\* ------------------------------------------------------------------------
\* Claims about detectHandType
\* ------------------------------------------------------------------------

Detected(value) == bigLast.op = "detectHandType" /\ bigLast.value = value

RanksOf(cards) == {cardRank(cards[i]) : i \in 1 .. Len(cards)}

SuitsOf(cards) == {cardSuit(cards[i]) : i \in 1 .. Len(cards)}

TimesRank(cards, r) == Cardinality({i \in 1 .. Len(cards) : cardRank(cards[i]) = r})

\* five consecutive ranks out of 3, ..., K, A
StraightShape(cards) ==
    /\ Len(cards) = 5
    /\ \E low \in 3 .. 10 : RanksOf(cards) = low .. (low + 4)

FlushShape(cards) == Len(cards) = 5 /\ Cardinality(SuitsOf(cards)) = 1

FourShape(cards) == Len(cards) = 5 /\ \E r \in RanksOf(cards) : TimesRank(cards, r) = 4

FullHouseShape(cards) ==
    /\ Len(cards) = 5
    /\ \E r, q \in RanksOf(cards) : r # q /\ TimesRank(cards, r) = 3 /\ TimesRank(cards, q) = 2

\* the hand type that the shape of the cards calls for
ShapeOf(cards) ==
    IF Len(cards) = 1 THEN "single"
    ELSE IF Len(cards) = 2 /\ Cardinality(RanksOf(cards)) = 1 THEN "pair"
    ELSE IF Len(cards) = 3 /\ Cardinality(RanksOf(cards)) = 1 THEN "triple"
    ELSE IF StraightShape(cards) /\ FlushShape(cards) THEN "straight_flush"
    ELSE IF FourShape(cards) THEN "four_of_a_kind"
    ELSE IF FullHouseShape(cards) THEN "full_house"
    ELSE IF StraightShape(cards) THEN "straight"
    ELSE NoHandType

\* C26: detectHandType returns single for one card, pair or triple for two or
\* three cards of one rank, straight_flush, four_of_a_kind, full_house or
\* straight for five cards of exactly that shape, and null otherwise: for a
\* plain flush and for every card count other than 1, 2, 3 and 5.
C26_HandTypeIsTheShape ==
    bigLast.op = "detectHandType" =>
        /\ bigLast.value = ShapeOf(bigLast.cards)
        /\ Len(bigLast.cards) \notin {1, 2, 3, 5} => bigLast.value = NoHandType
        /\ (FlushShape(bigLast.cards) /\ ~StraightShape(bigLast.cards)) => bigLast.value = NoHandType

\* five cards of one suit that are no run have been refused
C26_Witness_PlainFlushRefused ==
    /\ Detected(NoHandType)
    /\ FlushShape(bigLast.cards)
    /\ Cardinality(RanksOf(bigLast.cards)) = 5

\* C27: no five cards that include a 2 (rank 15) are classified as straight or
\* straight_flush.
C27_NoStraightThroughTwo ==
    (bigLast.op = "detectHandType" /\ Len(bigLast.cards) = 5 /\ 15 \in RanksOf(bigLast.cards))
        => bigLast.value \notin {"straight", "straight_flush"}

\* jack, queen, king, ace and 2 of one suit have been refused
C27_Witness_JackToTwoRefused ==
    /\ Detected(NoHandType)
    /\ RanksOf(bigLast.cards) = 11 .. 15
    /\ FlushShape(bigLast.cards)

\* ------------------------------------------------------------------------
\* canBeatPlay as a pure function: two plays of different cards, each a legal
\* combination of the threes and fours, three fives, the clubs and spades of
\* six and seven and the eight of clubs, with the hand type detectHandType
\* gives it
\* ------------------------------------------------------------------------

BeatCards ==
    {CardOf(suit, rank) : suit \in 0 .. 3, rank \in 3 .. 4}
        \cup {CardOf(suit, 5) : suit \in {0, 1, 3}}
        \cup {CardOf(suit, rank) : suit \in {0, 3}, rank \in 6 .. 7}
        \cup {CardOf(0, 8)}

PlayOf(S, playerId) ==
    [cards |-> sortCards(S), handType |-> detectHandType(sortCards(S)), playerId |-> playerId]

\* the legal combinations of the cards, as plays
BeatPlays ==
    {PlayOf(S, "u2") : S \in {T \in SUBSET BeatCards :
                                 /\ Cardinality(T) \in {1, 2, 3, 5}
                                 /\ detectHandType(sortCards(T)) # NoHandType}}

BeatInit ==
    /\ \E play \in BeatPlays :
       \E lastPlay \in {q \in BeatPlays : CardSet(q.cards) \cap CardSet(play.cards) = {}} :
           bigLast = [op |-> "",
                      cards |-> play.cards,
                      lastPlay |-> <<lastPlay>>,
                      value |-> ""]
    /\ bigTwo = <<>>
    /\ game = <<>>
    /\ last = [op |-> "startGame", who |-> "", wrote |-> TRUE]
    /\ huTiles = <<>>
    /\ huResult = "unset"
    /\ stale = NoWrite
    /\ claims = <<>>
    /\ ScoreIdle
    /\ ChessIdle

BeatCall ==
    /\ bigLast.op = ""
    /\ bigLast' = [bigLast EXCEPT
                      !.op = "canBeatPlay",
                      !.value = IF canBeatPlay([cards |-> bigLast.cards,
                                                handType |-> detectHandType(bigLast.cards),
                                                playerId |-> "u1"],
                                               bigLast.lastPlay[1])
                                THEN "true" ELSE "false"]
    /\ UNCHANGED <<bigTwo, mjVars, huVars, raceVars, scoreVars, chessVars>>

BeatNext == BeatCall

SpecBeat == BeatInit /\ [][BeatNext]_vars

\* ------------------------------------------------------------------------
\* Claims about canBeatPlay
\* ------------------------------------------------------------------------

\* straight < full_house < four_of_a_kind < straight_flush
FiveCardOrder == <<"straight", "full_house", "four_of_a_kind", "straight_flush">>

StrongerType(a, b) ==
    \E i, j \in 1 .. Len(FiveCardOrder) : FiveCardOrder[i] = a /\ FiveCardOrder[j] = b /\ i > j

\* rank, then suit
CardStrength(c) == cardRank(c) * 4 + cardSuit(c)

\* the representative of a combination: the rank of the triple or quad of a
\* full house or a four of a kind, else the highest card
Representative(cards, handType) ==
    IF handType = "full_house"
    THEN 4 * (CHOOSE r \in RanksOf(cards) : TimesRank(cards, r) = 3)
    ELSE IF handType = "four_of_a_kind"
    THEN 4 * (CHOOSE r \in RanksOf(cards) : TimesRank(cards, r) = 4)
    ELSE CHOOSE m \in {CardStrength(c) : c \in CardSet(cards)} :
             \A c \in CardSet(cards) : CardStrength(c) <= m

\* C25: canBeatPlay(play, lastPlay) is true exactly when both are five-card
\* hands and play's type is the stronger one, or both have the same number of
\* cards and the same type and play's representative card is the higher one
\* by rank and then by suit.
C25_BeatsByTypeOrRepresentative ==
    bigLast.op = "canBeatPlay" =>
        LET cards == bigLast.cards
            handType == detectHandType(cards)
            lastPlay == bigLast.lastPlay[1]
        IN  (bigLast.value = "true") <=>
                \/ /\ Len(cards) = 5
                   /\ Len(lastPlay.cards) = 5
                   /\ StrongerType(handType, lastPlay.handType)
                \/ /\ Len(cards) = Len(lastPlay.cards)
                   /\ handType = lastPlay.handType
                   /\ Representative(cards, handType)
                          > Representative(lastPlay.cards, lastPlay.handType)

\* a full house with the lower cards but the higher triple has beaten a full
\* house
C25_Witness_FullHouseByTriple ==
    /\ bigLast.op = "canBeatPlay"
    /\ bigLast.value = "true"
    /\ detectHandType(bigLast.cards) = "full_house"
    /\ bigLast.lastPlay[1].handType = "full_house"
    /\ compareBigTwoCards(getHighCard(bigLast.cards), getHighCard(bigLast.lastPlay[1].cards)) < 0


\* ------------------------------------------------------------------------
\* Big Two game: startGame's big_two branch, playBigTwoCards, passBigTwoTurn
\* and the host's bot effect, driven through the buttons of BigTwoCard
\* ------------------------------------------------------------------------

MaxBigTurns == 6

PlayWindow == 2

\* GAME_CONFIGS.big_two
BigTwoMinPlayers == 3

BigTwoMaxPlayers == 4

\* the active players of a room when the host starts: four people, two
\* people filled up with bots, three people without filling
BigRooms == {<<"u1", "u2", "u3", "u4">>, <<"u1", "u2", "bot_1", "bot_2">>, <<"u1", "u2", "u3">>}

\* card k of the hand g of a shuffle outcome in which the four hands hold
\* the pairs of alternating ranks and one two each
CraftedHandCard(g, k) ==
    IF k = 12 THEN CardOf(g, 15)
    ELSE CardOf(2 * (g % 2) + (k % 2), 3 + (g \div 2) + 2 * (k \div 2))

\* shuffleBigTwoDeck: four outcomes, the club 3 dealt to each seat in turn
BigDecks ==
    {[i \in 1 .. 52 |-> CraftedHandCard((((i - 1) % 4) + 4 - r) % 4, (i - 1) \div 4)] : r \in 0 .. 3}

bigPlayerIndex(s, id) ==
    LET hits == {i \in DOMAIN s.players : s.players[i].id = id}
    IN  IF hits = {} THEN -1 ELSE CHOOSE i \in hits : TRUE

bigIndexOf(turnOrder, id) ==
    LET hits == {i \in 1 .. Len(turnOrder) : turnOrder[i] = id}
    IN  IF hits = {} THEN -1 ELSE (CHOOSE i \in hits : \A j \in hits : i <= j) - 1

bigHandOf(players, id) ==
    LET hits == {i \in DOMAIN players : players[i].id = id}
    IN  IF hits = {} THEN <<>> ELSE players[CHOOSE i \in hits : TRUE].hand

\* players.filter(p => (p.hand?.length || 0) > 0).length
bigActiveCount(s) == Cardinality({i \in DOMAIN s.players : Len(s.players[i].hand) > 0})

\* the next seat of turnOrder after cIdx, seats with an empty hand skipped
bigNextTurn(players, turnOrder, cIdx) ==
    LET n == Len(turnOrder)
        ok == {d \in 1 .. n : Len(bigHandOf(players, turnOrder[((cIdx + d) % n) + 1])) # 0}
        d == IF ok = {} THEN 1 ELSE CHOOSE x \in ok : \A y \in ok : x <= y
    IN  turnOrder[((cIdx + d) % n) + 1]

\* startGame, big_two branch: the new game, or no game at all when
\* bigTwoPlayers[starterIndex] does not exist
startBigTwo(seated, deck) ==
    LET hands == dealBigTwoCards(deck)
        starterIndex == findClub3Holder(hands)
        n == Min2(Len(seated), 4)
        bigTwoPlayers == [index \in 0 .. (n - 1) |->
                             [id |-> seated[index + 1],
                              hand |-> hands[index],
                              cardCount |-> Len(hands[index])]]
        turnOrder == [i \in 1 .. n |-> bigTwoPlayers[(starterIndex + i - 1) % n].id]
    IN  IF starterIndex >= n THEN <<>>
        ELSE [players |-> bigTwoPlayers,
              currentTurn |-> bigTwoPlayers[starterIndex].id,
              turnOrder |-> turnOrder,
              consecutivePasses |-> 0,
              gameStatus |-> "playing",
              roundStarter |-> bigTwoPlayers[starterIndex].id,
              lastPlay |-> <<>>,
              lastPlayerId |-> "",
              centerCards |-> <<>>,
              winner |-> ""]

\* the write of an accepted play, shared by playBigTwoCards and the bot effect
bigPlayWrite(s, playerIndex, selectedCards, handType) ==
    LET player == s.players[playerIndex]
        newHand == SelectSeq(player.hand, LAMBDA c : c \notin CardSet(selectedCards))
        newPlayers == [s.players EXCEPT ![playerIndex] =
                          [player EXCEPT !.hand = newHand, !.cardCount = Len(newHand)]]
        newPlay == [cards |-> selectedCards, handType |-> handType, playerId |-> player.id]
    IN  IF Len(newHand) = 0
        THEN [players |-> newPlayers, lastPlay |-> <<newPlay>>, lastPlayerId |-> player.id,
              centerCards |-> selectedCards, consecutivePasses |-> 0,
              gameStatus |-> "ended", winner |-> player.id]
        ELSE [players |-> newPlayers,
              currentTurn |-> bigNextTurn(newPlayers, s.turnOrder, bigIndexOf(s.turnOrder, player.id)),
              lastPlay |-> <<newPlay>>, lastPlayerId |-> player.id,
              centerCards |-> selectedCards, consecutivePasses |-> 0,
              roundStarter |-> player.id]

\* bigPassWrite that asks for one pass more before the trick is cleared
bigPassWriteOneMorePass(s, id) ==
    LET newPasses == s.consecutivePasses + 1
        next == bigNextTurn(s.players, s.turnOrder, bigIndexOf(s.turnOrder, id))
        leader == IF s.lastPlayerId # "" THEN s.lastPlayerId ELSE next
    IN  IF newPasses >= bigActiveCount(s)
        THEN [currentTurn |-> leader, consecutivePasses |-> 0, lastPlay |-> <<>>,
              centerCards |-> <<>>, roundStarter |-> leader]
        ELSE [currentTurn |-> next, consecutivePasses |-> newPasses]

\* the write of a pass, shared by passBigTwoTurn and the bot effect
bigPassWrite(s, id) ==
    LET newPasses == s.consecutivePasses + 1
        next == bigNextTurn(s.players, s.turnOrder, bigIndexOf(s.turnOrder, id))
        leader == IF s.lastPlayerId # "" THEN s.lastPlayerId ELSE next
    IN  IF newPasses >= bigActiveCount(s) - 1
        THEN [currentTurn |-> leader, consecutivePasses |-> 0, lastPlay |-> <<>>,
              centerCards |-> <<>>, roundStarter |-> leader]
        ELSE [currentTurn |-> next, consecutivePasses |-> newPasses]

bigIsNewRound(s) == s.consecutivePasses >= bigActiveCount(s) - 1 \/ s.lastPlay = <<>>

bigIsFirstPlay(s) == s.lastPlay = <<>> /\ s.roundStarter = s.turnOrder[1]

playBigTwoCards(s, user, cardIds) ==
    LET playerIndex == bigPlayerIndex(s, user)
        selectedCards == SelectSeq(s.players[playerIndex].hand, LAMBDA c : c \in cardIds)
        validation == isValidPlay(selectedCards, s.lastPlay, bigIsNewRound(s), bigIsFirstPlay(s))
    IN  IF s.currentTurn # user \/ playerIndex = -1 THEN NoWrite
        ELSE IF Len(selectedCards) = 0 THEN NoWrite
        ELSE IF ~validation.valid \/ validation.handType = NoHandType THEN NoWrite
        ELSE bigPlayWrite(s, playerIndex, selectedCards, validation.handType)

passBigTwoTurn(s, user) ==
    IF s.currentTurn # user THEN NoWrite ELSE bigPassWrite(s, user)

\* the host's bot effect: what the bot whose turn it is plays, <<>> for a pass
bigBotCards(s) ==
    botSelectCards(bigHandOf(s.players, s.currentTurn), s.lastPlay, bigIsNewRound(s), bigIsFirstPlay(s))

bigBotWrite(s) ==
    LET selectedCards == bigBotCards(s)
    IN  IF selectedCards # <<>>
        THEN IF detectHandType(selectedCards) = NoHandType THEN NoWrite
             ELSE bigPlayWrite(s, bigPlayerIndex(s, s.currentTurn), selectedCards,
                               detectHandType(selectedCards))
        ELSE bigPassWrite(s, s.currentTurn)

\* what one step leaves in bigLast: the operation, who ran it, the cards, the
\* state it ran on and whether it wrote
BigRecord(op, who, cards, wrote) ==
    [op |-> op, who |-> who, cards |-> cards, wrote |-> wrote,
     before |-> IF bigTwo.gameStatus = "waiting" THEN <<>> ELSE <<bigTwo>>,
     opened |-> bigLast.opened \/ (bigLast.op \in {"playBigTwoCards", "bot"}
                                   /\ bigLast.wrote /\ bigLast.cards # <<>>),
     turns |-> bigLast.turns + (IF wrote THEN 1 ELSE 0)]

BigInit ==
    /\ \E room \in BigRooms : bigTwo = [gameStatus |-> "waiting", players |-> room]
    /\ bigLast = [op |-> "", who |-> "", cards |-> <<>>, wrote |-> FALSE,
                  before |-> <<>>, opened |-> FALSE, turns |-> 0]
    /\ game = <<>>
    /\ last = [op |-> "startGame", who |-> "", wrote |-> TRUE]
    /\ huTiles = <<>>
    /\ huResult = "unset"
    /\ stale = NoWrite
    /\ claims = <<>>
    /\ ScoreIdle
    /\ ChessIdle

BigOthersUnchanged == UNCHANGED <<mjVars, huVars, raceVars, scoreVars, chessVars>>

\* the host presses start
BigStart ==
    /\ bigTwo.gameStatus = "waiting"
    /\ Len(bigTwo.players) >= BigTwoMinPlayers
    /\ Len(bigTwo.players) <= BigTwoMaxPlayers
    /\ \E deck \in BigDecks :
          LET started == startBigTwo(bigTwo.players, deck)
          IN  /\ bigTwo' = IF started = <<>> THEN bigTwo ELSE started
              /\ bigLast' = BigRecord("startGame", Host, deck, started # <<>>)
    /\ BigOthersUnchanged

BigPlaying ==
    /\ bigTwo.gameStatus = "playing"
    /\ bigLast.turns < MaxBigTurns

\* the cards a person can select here: some of the lowest of the hand
BigSelections(s, user) ==
    LET hand == bigHandOf(s.players, user)
    IN  SUBSET {hand[i] : i \in 1 .. Min2(PlayWindow, Len(hand))} \ {{}}

\* the play button: shown on the player's turn, enabled when the selected
\* cards are a combination
HumanPlay ==
    /\ BigPlaying
    /\ ~isBot(bigTwo.currentTurn)
    /\ \E cardIds \in BigSelections(bigTwo, bigTwo.currentTurn) :
          LET u == playBigTwoCards(bigTwo, bigTwo.currentTurn, cardIds)
          IN  /\ detectHandType(sortCards(cardIds)) # NoHandType
              /\ bigTwo' = Merge(bigTwo, u)
              /\ bigLast' = BigRecord("playBigTwoCards", bigTwo.currentTurn,
                                      sortCards(cardIds), u # NoWrite)
    /\ BigOthersUnchanged

\* the pass button: shown on the player's turn, disabled when
\* isNewRound && !lastPlay && !roundStarter
HumanPass ==
    /\ BigPlaying
    /\ ~isBot(bigTwo.currentTurn)
    /\ ~(/\ (bigTwo.consecutivePasses >= Cardinality(DOMAIN bigTwo.players) - 1
              \/ bigTwo.lastPlay = <<>>)
          /\ bigTwo.lastPlay = <<>>
          /\ bigTwo.roundStarter = "")
    /\ bigTwo' = Merge(bigTwo, passBigTwoTurn(bigTwo, bigTwo.currentTurn))
    /\ bigLast' = BigRecord("passBigTwoTurn", bigTwo.currentTurn, <<>>, TRUE)
    /\ BigOthersUnchanged

\* the host's timer for the bot whose turn it is
BigBotTurn ==
    /\ BigPlaying
    /\ isBot(bigTwo.currentTurn)
    /\ bigPlayerIndex(bigTwo, bigTwo.currentTurn) # -1
    /\ Len(bigHandOf(bigTwo.players, bigTwo.currentTurn)) # 0
    /\ bigTwo' = Merge(bigTwo, bigBotWrite(bigTwo))
    /\ bigLast' = BigRecord("bot", bigTwo.currentTurn, bigBotCards(bigTwo),
                            bigBotWrite(bigTwo) # NoWrite)
    /\ BigOthersUnchanged

BigNext == BigStart \/ HumanPlay \/ HumanPass \/ BigBotTurn

SpecBig == BigInit /\ [][BigNext]_vars


\* the three fields startGame sets to the starter, and the seats' cards
BigSeatedCards(s) == UNION {CardSet(s.players[i].hand) : i \in DOMAIN s.players}

BigHolder(s) ==
    LET hits == {i \in DOMAIN s.players : hasClub3(s.players[i].hand)}
    IN  IF hits = {} THEN "" ELSE s.players[CHOOSE i \in hits : TRUE].id

BigJustStarted == bigLast.op = "startGame" /\ bigLast.wrote

\* C24: when a game starts with 3 or 4 players, each of the 52 cards is in
\* exactly one seated player's hand (13 each with four players), and
\* currentTurn, roundStarter and turnOrder[0] are the holder of the club 3
C24_AllCardsSeatedHolderStarts ==
    BigJustStarted =>
        /\ BigSeatedCards(bigTwo) = BigTwoCards
        /\ \A i, j \in DOMAIN bigTwo.players :
              i # j => CardSet(bigTwo.players[i].hand) \cap CardSet(bigTwo.players[j].hand) = {}
        /\ Cardinality(DOMAIN bigTwo.players) = 4 =>
              \A i \in DOMAIN bigTwo.players : Len(bigTwo.players[i].hand) = 13
        /\ bigTwo.currentTurn = BigHolder(bigTwo)
        /\ bigTwo.roundStarter = BigHolder(bigTwo)
        /\ bigTwo.turnOrder[1] = BigHolder(bigTwo)

\* the same statement for the games of four players only
C24_FourPlayersAllSeated ==
    (BigJustStarted /\ Cardinality(DOMAIN bigTwo.players) = 4) =>
        /\ BigSeatedCards(bigTwo) = BigTwoCards
        /\ \A i \in DOMAIN bigTwo.players : Len(bigTwo.players[i].hand) = 13
        /\ bigTwo.currentTurn = BigHolder(bigTwo)
        /\ bigTwo.roundStarter = BigHolder(bigTwo)
        /\ bigTwo.turnOrder[1] = BigHolder(bigTwo)



\* the step just taken put cards on the table
BigPlayed == bigLast.op \in {"playBigTwoCards", "bot"} /\ bigLast.wrote /\ bigLast.cards # <<>>

\* C22: the first accepted play of a game, the first write that sets
\* lastPlay, is made by the player who holds the club 3 and contains it
C22_OpeningPlayIsClub3ByHolder ==
    (BigPlayed /\ ~bigLast.opened) =>
        /\ bigLast.who = BigHolder(bigLast.before[1])
        /\ hasClub3(bigLast.cards)

\* the opening play where the statement does hold: the holder leads the club 3
C22_HolderLeadsClub3 ==
    /\ BigPlayed
    /\ ~bigLast.opened
    /\ bigLast.who = BigHolder(bigLast.before[1])
    /\ hasClub3(bigLast.cards)



\* the step just taken was a person's play on a table cleared by the passes
\* of the others, after the opening play of the game
BigLedFreshRound ==
    /\ bigLast.op = "playBigTwoCards"
    /\ bigLast.opened
    /\ bigLast.before[1].lastPlay = <<>>

\* C23: after the opening play, whenever the round is fresh the leader may
\* play any combination for which detectHandType is not null
C23_FreshRoundLeaderPlaysAnything ==
    (BigLedFreshRound /\ detectHandType(bigLast.cards) # NoHandType) => bigLast.wrote

\* a fresh round the code does accept: a leader other than the opener
C23_OtherLeaderAccepted ==
    /\ BigLedFreshRound
    /\ bigLast.wrote
    /\ ~hasClub3(bigLast.cards)

\* ------------------------------------------------------------------------
\* botSelectCards as a pure function: hands of up to MaxBotHand of the cards
\* of BotHandCards against the plays of BotTable, with both flags free
\* ------------------------------------------------------------------------

MaxBotHand == 6

BotHandCards ==
    {CardOf(0, 3), CardOf(1, 4), CardOf(2, 5), CardOf(3, 5), CardOf(1, 6),
     CardOf(1, 7), CardOf(1, 8), CardOf(3, 8), CardOf(2, 9)}

\* what lies on the table: nothing, a single, two pairs, a triple, a straight
BotTable ==
    {<<>>} \cup
    {<<PlayOf(S, "u2")>> :
        S \in {{CardOf(1, 3)},
               {CardOf(2, 4), CardOf(3, 4)},
               {CardOf(0, 8), CardOf(2, 8)},
               {CardOf(0, 9), CardOf(1, 9), CardOf(3, 9)},
               {CardOf(2, 3), CardOf(0, 4), CardOf(0, 5), CardOf(0, 6), CardOf(0, 7)}}}

BotHands == {sortCards(S) : S \in {T \in SUBSET BotHandCards : Cardinality(T) \in 1 .. MaxBotHand}}

BotInit ==
    /\ \E hand \in BotHands, lastPlay \in BotTable, isNewRound \in BOOLEAN,
          isFirstPlayOfGame \in BOOLEAN :
          bigLast = [op |-> "", hand |-> hand, lastPlay |-> lastPlay,
                     isNewRound |-> isNewRound, isFirstPlayOfGame |-> isFirstPlayOfGame,
                     value |-> <<>>]
    /\ bigTwo = <<>>
    /\ game = <<>>
    /\ last = [op |-> "startGame", who |-> "", wrote |-> TRUE]
    /\ huTiles = <<>>
    /\ huResult = "unset"
    /\ stale = NoWrite
    /\ claims = <<>>
    /\ ScoreIdle
    /\ ChessIdle

\* value is the list of cards returned, the empty list for null
BotCall ==
    /\ bigLast.op = ""
    /\ bigLast' = [bigLast EXCEPT
                      !.op = "botSelectCards",
                      !.value = botSelectCards(bigLast.hand, bigLast.lastPlay,
                                               bigLast.isNewRound, bigLast.isFirstPlayOfGame)]
    /\ UNCHANGED <<bigTwo, mjVars, huVars, raceVars, scoreVars, chessVars>>

BotNext == BotCall

SpecBot == BotInit /\ [][BotNext]_vars

BotSelected == bigLast.op = "botSelectCards" /\ bigLast.value # <<>>

BotPassed == bigLast.op = "botSelectCards" /\ bigLast.value = <<>>

\* C31: every card set botSelectCards returns is a subset of the hand that
\* isValidPlay accepts for the same lastPlay, isNewRound and isFirstPlayOfGame
C31_BotPlayIsValid ==
    BotSelected =>
        /\ CardSet(bigLast.value) \subseteq CardSet(bigLast.hand)
        /\ isValidPlay(bigLast.value, bigLast.lastPlay, bigLast.isNewRound,
                       bigLast.isFirstPlayOfGame).valid

\* the same statement for the calls that are not the first play of the game
C31_LaterBotPlayIsValid ==
    (BotSelected /\ ~bigLast.isFirstPlayOfGame) =>
        /\ CardSet(bigLast.value) \subseteq CardSet(bigLast.hand)
        /\ isValidPlay(bigLast.value, bigLast.lastPlay, bigLast.isNewRound, FALSE).valid

\* the combinations of n cards of the hand that beat the play on the table
BotBeating(n) ==
    {S \in SUBSET CardSet(bigLast.hand) :
        /\ Cardinality(S) = n
        /\ detectHandType(sortCards(S)) # NoHandType
        /\ canBeatPlay(PlayOf(S, ""), bigLast.lastPlay[1])}

\* C32: against a single, a pair or a five-card hand botSelectCards returns
\* null only if the hand holds no single, pair or five-card combination,
\* respectively, that canBeatPlay accepts against lastPlay
C32_BotPassesOnlyWhenBeaten ==
    (BotPassed /\ bigLast.lastPlay # <<>>
       /\ Len(bigLast.lastPlay[1].cards) \in {1, 2, 5}) =>
        BotBeating(Len(bigLast.lastPlay[1].cards)) = {}

\* the same statement for singles and pairs only
C32_BotPassesOnlyWhenNoSingleOrPairBeats ==
    (BotPassed /\ bigLast.lastPlay # <<>>
       /\ Len(bigLast.lastPlay[1].cards) \in {1, 2}) =>
        BotBeating(Len(bigLast.lastPlay[1].cards)) = {}

\* the bot is on turn in a running game and has a flip, slide or capture
BotCanAct ==
    /\ BotOnTurn(chess)
    /\ BotDecisions(chess) # {}
    /\ chessLast.ply < MaxPlies

BotActed == chessLast.op \in {"botFlip", "botMove"} /\ chessLast.wrote

\* C33: whenever the game is playing, the colour in currentPlayer is held by
\* the bot and the bot has a legal flip, slide or capture, the bot process of
\* the host eventually performs one, also right after the first flip
C33_BotEventuallyActs == BotCanAct ~> BotActed

\* the same statement for the turns the bot gets by a change of currentPlayer
C33_BotActsAfterTurnChange == (BotCanAct /\ chessLast.armed) ~> BotActed

\* the step is an accepted move or capture
MoveAccepted == chessLast'.op \in ChessMoveOps /\ chessLast'.wrote

\* C34: every accepted move or capture moves a face-up piece whose colour is
\* the colour held by the player who submitted it
C34_MovesOwnFaceUpPiece ==
    [][MoveAccepted =>
          /\ chess.board[chessLast'.from].isFlipped
          /\ chess.board[chessLast'.from].color = playerColor(chess, chessLast'.who)]_vars

\* the same statement for the moves made through the board and by the bot
C34_BoardMovesOwnFaceUpPiece ==
    [][(MoveAccepted /\ chessLast'.op # "call:move") =>
          /\ chess.board[chessLast'.from].isFlipped
          /\ chess.board[chessLast'.from].color = playerColor(chess, chessLast'.who)]_vars

\* ------------------------------------------------------------------------
\* startNextRound on the ended rounds of a game: early rounds and the last
\* ones, every dealer, every outcome
\* ------------------------------------------------------------------------

MaxLianZhuang == 2

EndedRoundNumbers == {1, 15, 16}

\* the scores after no transfer and after a self-drawn win of seat 0
EndedScores == {<<0, 0, 0, 0>>, <<6, -2, -2, -2>>}

\* outcome 0 .. 3 is a win of that seat, 4 an exhaustive draw
EndedRound(round, dealer, count, outcome, scores) ==
    [FirstDeal EXCEPT
        !.players = [index \in Seats |->
                        [FirstDeal.players[index] EXCEPT
                            !.wind = (index - dealer + 4) % 4,
                            !.score = scores[index + 1]]],
        !.round = round,
        !.prevailingWind = ((round - 1) \div 4) % 4,
        !.dealer = dealer,
        !.lianZhuangCount = count,
        !.gameStatus = "ended",
        !.endReason = IF outcome = 4 THEN "exhaustive_draw" ELSE "zimo",
        !.winner = IF outcome = 4 THEN "" ELSE activePlayers[outcome]]

RoundsInit ==
    /\ \E round \in EndedRoundNumbers, dealer \in Seats, count \in 0 .. MaxLianZhuang,
          outcome \in 0 .. 4, scores \in EndedScores :
          game = EndedRound(round, dealer, count, outcome, scores)
    /\ last = [op |-> "ended", who |-> "", wrote |-> TRUE]
    /\ huTiles = <<>>
    /\ huResult = "unset"
    /\ stale = NoWrite
    /\ claims = <<>>
    /\ ScoreIdle
    /\ ChessIdle
    /\ BigIdle

RoundsNext == \E u \in Humans : CallStartNextRound(u)

SpecRounds == RoundsInit /\ [][RoundsNext]_vars

\* the step is the host's startNextRound on an ended round
HostStartsNextRound ==
    /\ last'.op = "call:nextRound"
    /\ last'.who = Host
    /\ game.gameStatus = "ended"

DealerStays == game.winner = game.players[game.dealer].id \/ game.endReason = "exhaustive_draw"

\* what the statement says of the new round
NextRoundAsStated ==
    /\ DealerStays =>
          /\ game'.dealer = game.dealer
          /\ game'.round = game.round
          /\ game'.lianZhuangCount = game.lianZhuangCount + 1
    /\ ~DealerStays =>
          /\ game'.dealer = (game.dealer + 1) % 4
          /\ game'.round = game.round + 1
          /\ game'.lianZhuangCount = 0
    /\ \A i \in Seats : game'.players[i].score = game.players[i].score

\* C38 (as stated): startNextRound keeps the dealer and the round number and
\* adds 1 to lianZhuangCount if and only if the dealer won or the round was
\* an exhaustive draw; otherwise the dealer moves to the next seat, the round
\* number grows by 1 and lianZhuangCount becomes 0; the scores are carried over
C38_NextRoundKeepsOrPassesDealer ==
    [][HostStartsNextRound => NextRoundAsStated]_vars

\* C38 (amended): the same, unless the dealer passes in the last round of
\* the game (round = totalRounds): then startNextRound writes nothing
C38_NextRoundUnlessGameOver ==
    [][HostStartsNextRound =>
          IF ~DealerStays /\ game.round + 1 > game.totalRounds
          THEN game' = game
          ELSE NextRoundAsStated]_vars

\* round 16 has been started by the dealer passing after round 15
C38_Witness_DealerPassedIntoLastRound ==
    /\ last.op = "call:nextRound"
    /\ last.wrote
    /\ game.gameStatus = "playing"
    /\ game.round = 16
    /\ game.lianZhuangCount = 0
    /\ \E i \in Seats : game.players[i].score # 0

\* ------------------------------------------------------------------------
\* Dark Chess games that a player may give up
\* ------------------------------------------------------------------------

\* Game: the footer button of a player, enabled while the game is playing
HumanSurrender(u) ==
    /\ playerColor(chess, u) # NoColor
    /\ chess.gameStatus = "playing"
    /\ ChessStep("surrender", u, -1, -1, surrender(chess, u))

ChessEndNext ==
    \/ \E u \in Humans : HumanFlip(u)
    \/ \E u \in Humans : HumanMove(u)
    \/ BotPlay
    \/ \E u \in Humans : HumanSurrender(u)
    \/ \E u \in Humans : CallHandleMove(u)
    \/ \E u \in Humans : CallHandleFlip(u)

SpecChessEnd == ChessInit /\ [][ChessEndNext]_vars

ChessOutcome(s) == <<s.board, s.capturedPieces, s.gameStatus, s.winner>>

\* C36: once a Dark Chess game has ended, no later move or flip by any user
\* changes the board, capturedPieces, gameStatus or winner
C36_EndedGameIsFrozen ==
    [][(chess.gameStatus = "ended" /\ chessLast'.op \in ChessMoveOps \cup ChessFlipOps)
          => ChessOutcome(chess') = ChessOutcome(chess)]_vars

\* through the board and the bot alone the ended game stays as it is
C36_BoardLeavesEndedGame ==
    [][(chess.gameStatus = "ended" /\ chessLast'.op \in {"move", "flip", "botMove", "botFlip"})
          => ChessOutcome(chess') = ChessOutcome(chess)]_vars

\* ------------------------------------------------------------------------
\* Big Two: the last tricks of a game, and what follows its end
\* ------------------------------------------------------------------------

MaxLateHand == 2

\* a game late on: every hand is down to its k lowest cards, the second seat
\* of turnOrder won the last trick and leads the next one
LateGame(room, deck, k) ==
    LET s == startBigTwo(room, deck)
        leader == s.turnOrder[2]
    IN  [s EXCEPT
            !.players = [index \in DOMAIN s.players |->
                            [s.players[index] EXCEPT
                                !.hand = SubSeq(s.players[index].hand, 1, k),
                                !.cardCount = k]],
            !.currentTurn = leader,
            !.roundStarter = leader,
            !.lastPlayerId = leader]

BigEndInit ==
    /\ \E room \in BigRooms, deck \in BigDecks, k \in 1 .. MaxLateHand :
          /\ startBigTwo(room, deck) # <<>>
          /\ bigTwo = LateGame(room, deck, k)
    /\ bigLast = [op |-> "", who |-> "", cards |-> <<>>, wrote |-> FALSE,
                  before |-> <<>>, opened |-> TRUE, turns |-> 0]
    /\ game = <<>>
    /\ last = [op |-> "startGame", who |-> "", wrote |-> TRUE]
    /\ huTiles = <<>>
    /\ huResult = "unset"
    /\ stale = NoWrite
    /\ claims = <<>>
    /\ ScoreIdle
    /\ ChessIdle

BigPeople(s) == {s.players[i].id : i \in DOMAIN s.players} \ BotIds

\* the exported handlers, called without the board in between
CallPlayBigTwoCards(u) ==
    /\ bigLast.turns < MaxBigTurns
    /\ u \in BigPeople(bigTwo)
    /\ \E cardIds \in BigSelections(bigTwo, u) :
          LET w == playBigTwoCards(bigTwo, u, cardIds)
          IN  /\ bigTwo' = Merge(bigTwo, w)
              /\ bigLast' = BigRecord("call:play", u, sortCards(cardIds), w # NoWrite)
    /\ BigOthersUnchanged

CallPassBigTwoTurn(u) ==
    /\ bigLast.turns < MaxBigTurns
    /\ u \in BigPeople(bigTwo)
    /\ LET w == passBigTwoTurn(bigTwo, u)
       IN  /\ bigTwo' = Merge(bigTwo, w)
           /\ bigLast' = BigRecord("call:pass", u, <<>>, w # NoWrite)
    /\ BigOthersUnchanged

BigEndNext ==
    \/ HumanPlay
    \/ HumanPass
    \/ BigBotTurn
    \/ \E u \in {"u1", "u2", "u3", "u4"} : CallPlayBigTwoCards(u)
    \/ \E u \in {"u1", "u2", "u3", "u4"} : CallPassBigTwoTurn(u)

SpecBigEnd == BigEndInit /\ [][BigEndNext]_vars

BigOutcome(s) ==
    <<[i \in DOMAIN s.players |-> s.players[i].hand], s.currentTurn, s.lastPlay, s.winner>>

\* C37: once a Big Two game has a winner (gameStatus 'ended'), no later play
\* or pass changes any hand, currentTurn, lastPlay or winner
C37_WonGameIsFrozen ==
    [][(bigTwo.gameStatus = "ended" /\ bigLast'.op # "startGame")
          => BigOutcome(bigTwo') = BigOutcome(bigTwo)]_vars

\* through the board and the host's bot timer alone the won game stays as it is
C37_BoardLeavesWonGame ==
    [][(bigTwo.gameStatus = "ended" /\ bigLast'.op \in {"playBigTwoCards", "passBigTwoTurn", "bot"})
          => BigOutcome(bigTwo') = BigOutcome(bigTwo)]_vars

\* ------------------------------------------------------------------------
\* Big Two: the passes that follow a play
\* ------------------------------------------------------------------------

\* the players other than the one of lastPlay who still hold cards
OthersHolding(s) ==
    Cardinality({i \in DOMAIN s.players :
                    Len(s.players[i].hand) > 0 /\ s.players[i].id # s.lastPlay[1].playerId})

\* while a play lies on the table, the turn is with the player that many
\* seats after the one who made it as there were passes since, and not yet
\* back with that one
PassesFollowPlay(s) ==
    (s.gameStatus = "playing" /\ s.lastPlay # <<>>) =>
        /\ s.consecutivePasses < Len(s.turnOrder) - 1
        /\ s.currentTurn # s.lastPlay[1].playerId
        /\ s.currentTurn =
              s.turnOrder[((bigIndexOf(s.turnOrder, s.lastPlay[1].playerId)
                            + 1 + s.consecutivePasses) % Len(s.turnOrder)) + 1]

\* the step is the pass of the last of the other players holding cards
LastPassOfTrick ==
    /\ bigTwo.gameStatus = "playing"
    /\ bigTwo.lastPlay # <<>>
    /\ bigLast'.op \in {"passBigTwoTurn", "bot"}
    /\ bigLast'.cards = <<>>
    /\ bigTwo.consecutivePasses + 1 = OthersHolding(bigTwo)

\* C39: after a play, once each other player still holding cards has passed
\* in turn, lastPlay is cleared, consecutivePasses is 0 and currentTurn is the
\* player who made that play; no player is asked to beat their own play
C39_TrickReturnsToItsPlayer ==
    [][/\ PassesFollowPlay(bigTwo')
       /\ LastPassOfTrick =>
             /\ bigTwo'.lastPlay = <<>>
             /\ bigTwo'.consecutivePasses = 0
             /\ bigTwo'.currentTurn = bigTwo.lastPlay[1].playerId]_vars

\* in a game of four, the three others have passed on a play and its player leads again
C39_Witness_ThreePassesClearTrick ==
    /\ bigLast.op \in {"passBigTwoTurn", "bot"}
    /\ bigLast.cards = <<>>
    /\ bigLast.before # <<>>
    /\ Len(bigTwo.turnOrder) = 4
    /\ bigLast.before[1].lastPlay # <<>>
    /\ bigLast.before[1].consecutivePasses = 2
    /\ bigTwo.lastPlay = <<>>
    /\ bigTwo.consecutivePasses = 0
    /\ bigTwo.currentTurn = bigLast.before[1].lastPlay[1].playerId

\* ------------------------------------------------------------------------
\* Mahjong: a round comes to its end
\* ------------------------------------------------------------------------

RoundOver(s) ==
    /\ s.gameStatus = "ended"
    /\ s.winner # "" \/ s.endReason = "exhaustive_draw"

Changes(s, w) == Merge(s, w) # s

\* someone is awaited and the step that one takes changes the record: a
\* person has at least one such step on the board, the host's timer for a bot
\* changes the record whatever the bot chooses (an effect that wrote nothing
\* would not run again)
RoundCanGoOn(s) ==
    \/ \E u \in Humans :
          /\ s.gameStatus = "playing"
          /\ ~HasPending(s)
          /\ s.currentTurn = u
          /\ getPlayerTileState(Self(s, u)) = "need_draw"
          /\ Changes(s, drawMahjongTile(s, u))
    \/ \E u \in Humans :
          /\ BoardOpen(s)
          /\ canDiscard(s, u)
          /\ \E t \in DiscardChoices(Self(s, u).hand, s.lastDrawnTileId, Len(s.wall)) :
                Changes(s, discardMahjongTile(s, u, t))
    \/ \E u \in Humans :
          /\ BoardOpen(s)
          /\ canAct(s, u)
          /\ Changes(s, skipActionForPlayer(s, u))
    \/ /\ s.gameStatus = "playing"
       /\ HasPending(s)
       /\ isBot(PA(s).targetPlayers[1])
       /\ \A w \in BotRespondWrites(s) : Changes(s, w[2])
    \/ /\ s.gameStatus = "playing"
       /\ ~HasPending(s)
       /\ isBot(s.currentTurn)
       /\ \A w \in BotTurnWrites(s) : Changes(s, w[2])

RECURSIVE HandTiles(_, _)
HandTiles(s, n) == IF n < 0 THEN 0 ELSE Len(s.players[n].hand) + HandTiles(s, n - 1)

\* what is left of a round: the wall, the tiles in the hands and the claims
\* still to be answered
RoundMeasure(s) ==
    IF s.gameStatus = "ended" THEN 0
    ELSE 1 + 8 * Len(s.wall) + 4 * HandTiles(s, 3)
           + (IF HasPending(s) THEN Len(PA(s).actions) ELSE 0)

\* C40: every Mahjong round in which each awaited player eventually acts
\* ends after finitely many actions, with a winner or an exhaustive draw:
\* while the round is not over someone is awaited whose step changes the
\* record, every change of the record lowers RoundMeasure (a natural
\* number), and a round that has ended has a winner or is an exhaustive draw
C40_RoundComesToItsEnd ==
    /\ [](game.gameStatus = "ended" \/ RoundCanGoOn(game))
    /\ [](game.gameStatus = "ended" => RoundOver(game))
    /\ [][game' # game => RoundMeasure(game') < RoundMeasure(game)]_vars

\* a round has run down to the exhaustive draw
C40_Witness_WallRunsOut ==
    /\ game.gameStatus = "ended"
    /\ game.endReason = "exhaustive_draw"
    /\ game.winner = ""
    /\ last.wrote

====
